---- MODULE Spec2Model ----
(***************************************************************************)
(* recipe-ripper: the /api/extract orchestrator (both revisions of         *)
(* route.ts), the platform resolver (platform.ts) and the transcription    *)
(* fallback (transcribe.ts and its earlier revisions).                     *)
(*                                                                         *)
(* Strings are kept as run-length encoded sequences of runs                *)
(* [tag, ws, n]: n characters that are all whitespace (ws = TRUE) or       *)
(* contain no leading/trailing whitespace (ws = FALSE).  Length, trim,     *)
(* truthiness and concatenation are computed on that encoding.             *)
(***************************************************************************)
EXTENDS Integers, Sequences, FiniteSets, TLC

(***************************************************************************)
(* Bounds of the model.                                                    *)
(***************************************************************************)
\* text lengths are explored within Slack characters of each threshold
Slack == 1
\* leading / trailing whitespace of an input string: 0..MaxPad characters
MaxPad == 1

\* closing braces after the embedded object, nesting depth of the object
MaxTrail == 2

MaxNest == 1

\* how many fragments a corpus given to the extractor is made of
MaxFrags == 2

(***************************************************************************)
(* Program constants.                                                      *)
(***************************************************************************)
\* route.ts (revision with in-process transcription): const MIN_TEXT = 250
MIN_TEXT == 250
\* route.ts (revision calling /api/transcribe): const minChars = 40
minChars == 40

\* value of an unset optional string (JS undefined)
Undefined == "<undefined>"
\* JS null for a string-valued result
Null == "<null>"

(***************************************************************************)
(* Strings.                                                                *)
(***************************************************************************)
Run(tag, ws, n) == [tag |-> tag, ws |-> ws, n |-> n]

EmptyStr == << >>

\* a string with lead whitespace characters, core characters of content
\* (first and last not whitespace) and trail whitespace characters
Mk(tag, lead, core, trail) ==
    (IF lead > 0 THEN <<Run("ws", TRUE, lead)>> ELSE << >>)
        \o (IF core > 0 THEN <<Run(tag, FALSE, core)>> ELSE << >>)
        \o (IF trail > 0 THEN <<Run("ws", TRUE, trail)>> ELSE << >>)

RECURSIVE StrLen(_)
\* String.prototype.length
StrLen(s) == IF s = << >> THEN 0 ELSE Head(s).n + StrLen(Tail(s))

RECURSIVE TrimStart(_)
TrimStart(s) ==
    IF s = << >> THEN << >>
    ELSE IF Head(s).ws THEN TrimStart(Tail(s)) ELSE s

RECURSIVE TrimEnd(_)
TrimEnd(s) ==
    IF s = << >> THEN << >>
    ELSE IF s[Len(s)].ws THEN TrimEnd(SubSeq(s, 1, Len(s) - 1)) ELSE s

\* String.prototype.trim
Trim(s) == TrimEnd(TrimStart(s))

\* JS truthiness of a string: non-empty
Truthy(s) == StrLen(s) > 0

(***************************************************************************)
(* URLs.  A URL is [host, path, v]: the hostname as a sequence of          *)
(* characters (as the URL parser yields it, lower-cased), the path split   *)
(* on "/" (empty segments included) and the value of the v query           *)
(* parameter ("" when absent).                                             *)
(***************************************************************************)
YOUTUBE_COM == <<"y","o","u","t","u","b","e",".","c","o","m">>
YOUTU_BE == <<"y","o","u","t","u",".","b","e">>
TIKTOK_COM == <<"t","i","k","t","o","k",".","c","o","m">>

\* String.prototype.includes on hostnames
Includes(h, needle) ==
    \E i \in 1..(Len(h) - Len(needle) + 1) :
        SubSeq(h, i, i + Len(needle) - 1) = needle

\* the URLs the requests are drawn from
Urls ==
    { [host |-> YOUTU_BE, path |-> <<"abc">>, v |-> ""],
      [host |-> YOUTU_BE, path |-> <<"">>, v |-> ""],
      [host |-> <<"w",".">> \o YOUTUBE_COM, path |-> <<"watch">>, v |-> "abc"],
      [host |-> <<"w",".">> \o YOUTUBE_COM, path |-> <<"watch">>, v |-> ""],
      [host |-> <<"w",".">> \o YOUTUBE_COM, path |-> <<"shorts", "abc">>, v |-> ""],
      [host |-> <<"w",".">> \o YOUTUBE_COM, path |-> <<"shorts">>, v |-> ""],
      [host |-> <<"w",".">> \o TIKTOK_COM, path |-> <<"@u", "video", "1">>, v |-> ""],
      [host |-> <<"e","x",".","c","o","m">>, path |-> <<"youtube.com", "abc">>, v |-> "abc"] }

\* platform.ts detectPlatform
detectPlatform(url) ==
    IF Includes(url.host, YOUTUBE_COM) \/ Includes(url.host, YOUTU_BE) THEN "youtube"
    ELSE IF Includes(url.host, TIKTOK_COM) THEN "tiktok"
    ELSE "unknown"

\* u.pathname.split("/").filter(Boolean)
PathParts(url) == SelectSeq(url.path, LAMBDA seg : seg # "")

\* Array.prototype.indexOf, 1-based; 0 when absent
IndexOf(parts, x) ==
    IF \E i \in 1..Len(parts) : parts[i] = x
    THEN CHOOSE i \in 1..Len(parts) :
            parts[i] = x /\ \A j \in 1..(i - 1) : parts[j] # x
    ELSE 0

\* platform.ts parseYouTubeId
parseYouTubeId(url) ==
    LET parts == PathParts(url)
        shortsIdx == IndexOf(parts, "shorts")
    IN  IF Includes(url.host, YOUTU_BE)
        THEN (IF Len(parts) >= 1 THEN parts[1] ELSE Null)
        ELSE IF url.v # "" THEN url.v
        ELSE IF shortsIdx >= 1 /\ Len(parts) >= shortsIdx + 1 THEN parts[shortsIdx + 1]
        ELSE Null

(***************************************************************************)
(* Input texts.                                                            *)
(***************************************************************************)
\* <<leading, trailing>> whitespace of an input text
PadPairs == { <<0, 0>> } \cup { <<p, 0>> : p \in 1..MaxPad } \cup { <<0, p>> : p \in 1..MaxPad }

Near(x) == { n \in (x - Slack)..(x + Slack) : n >= 0 }

\* length of the "SOURCE TEXT:\n" / "PASTED TEXT:\n" label
LabelLen == 13

\* content lengths around a threshold, alone and behind a label
CoreLens(threshold) == Near(threshold) \cup Near(threshold - LabelLen)

\* captions as the transcript library returns them: explored around the
\* threshold of the revision that serves the request
NativeTexts(threshold) ==
    { Mk("native", pp[1], c, pp[2]) : pp \in PadPairs, c \in CoreLens(threshold) }
        \cup { Mk("native", l, 0, 0) : l \in 0..MaxPad }

\* captions as the watch-page scrape returns them (transcriptFromJson3 trims)
ScrapedTexts(threshold) == { Mk("scraped", 0, c, 0) : c \in {0, threshold} }

\* text as the transcription engine prints it
WhisperTexts ==
    { EmptyStr, Mk("whisper", 1, 0, 0), Mk("whisper", 0, 5, 0),
      Mk("whisper", 0, MIN_TEXT, 1) }

\* the pastedText field of the request body
PastedTexts ==
    { EmptyStr, Mk("pasted", 1, 0, 0), Mk("pasted", 1, 5, 1),
      Mk("pasted", 0, MIN_TEXT, 0) }

Authors == { Mk("author", 0, 3, 0) }

(***************************************************************************)
(* platform.ts: fetchSourceText.  The outcomes of the network calls are    *)
(* the environment env = [oembed, lib, scrape].                            *)
(***************************************************************************)
\* outcomes of fetchJson(oembed): failure, or a JSON object that may lack
\* title and author_name
OembedOutcomes ==
    { [ok |-> FALSE], [ok |-> TRUE],
      [ok |-> TRUE, title |-> Mk("title", 0, minChars, 0)] }
        \cup { [ok |-> TRUE, title |-> Mk("title", 0, 5, 0), author |-> a] : a \in Authors }

\* outcomes of YoutubeTranscript.fetchTranscript followed by map/join
LibOutcomes(threshold) ==
    { [ok |-> FALSE] } \cup { [ok |-> TRUE, text |-> t] : t \in NativeTexts(threshold) }

\* outcomes of fetchYouTubeTranscriptFallback: where it stopped
ScrapeOutcomes(threshold) ==
    { [stage |-> st] : st \in {"watchFail", "noTracks", "noBaseUrl", "timedFail"} }
        \cup { [stage |-> "ok", text |-> t] : t \in ScrapedTexts(threshold) }

\* optional field of an object: absent when the value is undefined
Opt(k, present, v) == IF present THEN k :> v ELSE << >>

\* platform.ts fetchYouTubeTranscriptFallback: the fetches it issues and
\* whether it returns text or throws
ScrapeFetches(sc) ==
    IF sc.stage \in {"watchFail", "noTracks", "noBaseUrl"} THEN <<"watch">>
    ELSE <<"watch", "timedtext">>

ScrapeThrows(sc) == sc.stage # "ok"

\* the YouTube branch without the try/catch around the oEmbed call: its
\* failure leaves fetchSourceText at once
ResolveYouTube_Propagates(env) ==
    LET oe == env.oembed
        libText == IF env.lib.ok THEN env.lib.text ELSE EmptyStr
        needScrape == ~Truthy(Trim(libText))
        text == IF needScrape /\ ~ScrapeThrows(env.scrape) THEN env.scrape.text
                ELSE libText
    IN  IF ~oe.ok
        THEN [source |-> [platform |-> "youtube"], fetches |-> <<"oembed">>,
              threw |-> TRUE]
        ELSE [ source |->
                   [platform |-> "youtube", text |-> text]
                       @@ Opt("title", "title" \in DOMAIN oe,
                              IF "title" \in DOMAIN oe THEN oe.title ELSE EmptyStr)
                       @@ Opt("author", "author" \in DOMAIN oe,
                              IF "author" \in DOMAIN oe THEN oe.author ELSE EmptyStr),
               fetches |->
                   <<"oembed", "transcript">>
                       \o (IF needScrape THEN ScrapeFetches(env.scrape) ELSE << >>),
               threw |-> FALSE ]

\* the YouTube branch scraping the watch page whatever the first layer gave
ResolveYouTube_AlwaysScrape(env) ==
    LET oe == env.oembed
        libText == IF env.lib.ok THEN env.lib.text ELSE EmptyStr
        text == IF ~ScrapeThrows(env.scrape) THEN env.scrape.text ELSE libText
    IN  [ source |->
              [platform |-> "youtube", text |-> text]
                  @@ Opt("title", oe.ok /\ "title" \in DOMAIN oe,
                         IF "title" \in DOMAIN oe THEN oe.title ELSE EmptyStr)
                  @@ Opt("author", oe.ok /\ "author" \in DOMAIN oe,
                         IF "author" \in DOMAIN oe THEN oe.author ELSE EmptyStr),
          fetches |-> <<"oembed", "transcript">> \o ScrapeFetches(env.scrape),
          threw |-> FALSE ]

\* platform.ts fetchSourceText, YouTube branch after the id was found
ResolveYouTube(env) ==
    LET oe == env.oembed
        libText == IF env.lib.ok THEN env.lib.text ELSE EmptyStr
        needScrape == ~Truthy(Trim(libText))
        text == IF needScrape /\ ~ScrapeThrows(env.scrape) THEN env.scrape.text
                ELSE libText
    IN  [ source |->
              [platform |-> "youtube", text |-> text]
                  @@ Opt("title", oe.ok /\ "title" \in DOMAIN oe,
                         IF "title" \in DOMAIN oe THEN oe.title ELSE EmptyStr)
                  @@ Opt("author", oe.ok /\ "author" \in DOMAIN oe,
                         IF "author" \in DOMAIN oe THEN oe.author ELSE EmptyStr),
          fetches |->
              <<"oembed", "transcript">>
                  \o (IF needScrape THEN ScrapeFetches(env.scrape) ELSE << >>),
          threw |-> FALSE ]

\* platform.ts fetchSourceText, TikTok branch
ResolveTikTok(env) ==
    LET oe == env.oembed
        hasTitle == oe.ok /\ "title" \in DOMAIN oe
    IN  [ source |->
              [platform |-> "tiktok",
               text |-> IF hasTitle /\ Truthy(oe.title) THEN oe.title ELSE EmptyStr]
                  @@ Opt("title", hasTitle,
                         IF "title" \in DOMAIN oe THEN oe.title ELSE EmptyStr)
                  @@ Opt("author", oe.ok /\ "author" \in DOMAIN oe,
                         IF "author" \in DOMAIN oe THEN oe.author ELSE EmptyStr),
          fetches |-> <<"oembed">>,
          threw |-> FALSE ]

\* fetchSourceText asking oEmbed before it looks for the video id
fetchSourceText_OembedFirst(url, env) ==
    LET platform == detectPlatform(url)
    IN  IF platform = "youtube"
        THEN IF parseYouTubeId(url) = Null
             THEN [source |-> [platform |-> platform, text |-> EmptyStr],
                   fetches |-> <<"oembed">>, threw |-> FALSE]
             ELSE ResolveYouTube(env)
        ELSE IF platform = "tiktok" THEN ResolveTikTok(env)
        ELSE [source |-> [platform |-> platform, text |-> EmptyStr],
              fetches |-> << >>, threw |-> FALSE]

\* platform.ts fetchSourceText
fetchSourceText(url, env) ==
    LET platform == detectPlatform(url)
    IN  IF platform = "youtube"
        THEN IF parseYouTubeId(url) = Null
             THEN [source |-> [platform |-> platform, text |-> EmptyStr],
                   fetches |-> << >>, threw |-> FALSE]
             ELSE ResolveYouTube(env)
        ELSE IF platform = "tiktok" THEN ResolveTikTok(env)
        ELSE [source |-> [platform |-> platform, text |-> EmptyStr],
              fetches |-> << >>, threw |-> FALSE]

\* the network outcomes fetchSourceText can meet for a URL: only the calls
\* it issues have an outcome
ResolverEnvs(url, threshold) ==
    IF detectPlatform(url) = "youtube" /\ parseYouTubeId(url) # Null
    THEN { [oembed |-> o, lib |-> l, scrape |-> s] :
              o \in OembedOutcomes, l \in LibOutcomes(threshold),
              s \in ScrapeOutcomes(threshold) }
    ELSE IF detectPlatform(url) = "tiktok"
    THEN { [oembed |-> o] : o \in OembedOutcomes }
    ELSE { [none |-> TRUE] }

(***************************************************************************)
(* State.                                                                  *)
(***************************************************************************)
VARIABLES
    ver,          \* which revision of route.ts serves the request: "V1" | "V2"
    tver,         \* which revision of transcribeUrl is linked: "T1" | "T2" | "T3"
    pc,           \* position of the POST handler
    body,         \* what await req.json() yielded
    req,          \* the parsed request body {url, pastedText, whisperModel, debug}
    steps,        \* const steps: StepEvent[]
    currentStep,  \* let currentStep (second revision only)
    source,       \* const source = await fetchSourceText(url)
    usedWhisper,  \* let usedWhisper
    whisperError, \* let whisperError
    combinedText, \* const combinedText
    response,     \* the JSON body and status handed to Response.json
    exitPath,     \* how the handler left: "none" | "return" | "catch"
    fetchLog,     \* network calls issued by fetchSourceText, in order
    calls,        \* how often each collaborator was invoked
    tpc,          \* position of transcribeUrl
    tmp,          \* the directory made by mkdtemp: "none" | "exists" | "removed"
    rmTried,      \* outcome of rm(tmp, ...): "none" | "ok" | "failed"
    procs,        \* subprocesses spawned, in order
    pending,      \* completion of the try block of transcribeUrl, held over finally
    trOut,        \* settled promise of transcribeUrl
    lateClose,    \* a 'close' event still to be delivered after 'error'
    transport,    \* fate of the handler's fetch to /api/transcribe
    exits,        \* how each spawned subprocess ended, in spawn order
    input,        \* arguments of the library function being called
    output,       \* what that call returned
    earlier,      \* the first call made to the library function, kept for comparison
    handlers,     \* the locals of each of several POST invocations in progress
    tmpdirs       \* the directories that exist under os.tmpdir()

vars ==
    << ver, tver, pc, body, req, steps, currentStep, source, usedWhisper,
       whisperError, combinedText, response, exitPath, fetchLog, calls, tpc, tmp,
       rmTried, procs, pending, trOut, lateClose, transport, exits, input, output,
       earlier, handlers, tmpdirs >>

\* a call of a library function on its own (resolver, scanner, extractor)
\* and the requests served side by side: untouched by the single request
callVars == << input, output, earlier, handlers, tmpdirs >>

\* no other invocation of POST is in progress
NoHandlers == [none |-> TRUE]

\* the state of a request being served
requestVars ==
    << ver, tver, pc, body, req, steps, currentStep, source, usedWhisper,
       whisperError, combinedText, response, exitPath, fetchLog, calls, tpc, tmp,
       rmTried, procs, pending, trOut, lateClose, transport, exits >>

orchVars ==
    << body, req, currentStep, source, usedWhisper, whisperError, combinedText,
       response, exitPath, fetchLog, calls, transport >>

(***************************************************************************)
(* Step events.                                                            *)
(***************************************************************************)
\* no call of a library function on its own is in progress
NoCall == [fn |-> "none"]

NoData == [none |-> TRUE]
Payload == [payload |-> TRUE]

\* a push that puts the event first: steps.unshift(...)
Push_Unshift(s, step, msg, data) == <<[step |-> step, msg |-> msg, data |-> data]>> \o s

\* the push closure of POST: appends {t, step, msg, data}
Push(s, step, msg, data) == Append(s, [step |-> step, msg |-> msg, data |-> data])

RECURSIVE PushAll(_, _)
\* several pushes in a row; evs is a sequence of <<step, msg, data>>
PushAll(s, evs) ==
    IF evs = << >> THEN s
    ELSE PushAll(Push(s, Head(evs)[1], Head(evs)[2], Head(evs)[3]), Tail(evs))

\* push?.(...) inside transcribe.ts: only the first revision of route.ts
\* hands its push to transcribeUrl
HasPush == ver = "V1"

TPush(s, evs) == IF HasPush THEN PushAll(s, evs) ELSE s

\* an event as JSON.stringify writes it: an undefined data is dropped
JsonEv(e) ==
    IF e.data = NoData THEN [step |-> e.step, msg |-> e.msg]
    ELSE [step |-> e.step, msg |-> e.msg, data |-> e.data]

\* steps.map((s) => ({ t: s.t, step: s.step, msg: s.msg }))
StripEv(e) == [step |-> e.step, msg |-> e.msg]

JsonSteps(s) == [i \in 1..Len(s) |-> JsonEv(s[i])]

StripSteps(s) == [i \in 1..Len(s) |-> StripEv(s[i])]

(***************************************************************************)
(* transcribe.ts: transcribeUrl, run, runJson (three revisions).           *)
(***************************************************************************)
\* what the transcription engine prints, once parsed by JSON.parse
EngineResults ==
    { [kind |-> "null"], [kind |-> "object"], [kind |-> "object", textNum |-> TRUE],
      [kind |-> "object", text |-> Mk("whisper", 0, 5, 0)] }
        \cup { [kind |-> "object", text |-> t, language |-> "en"] : t \in WhisperTexts }

Settled(kind, text, language, msg) ==
    [kind |-> kind, text |-> text, language |-> language, msg |-> msg]

Threw(msg) == Settled("threw", EmptyStr, Undefined, msg)

NotSettled == Settled("none", EmptyStr, Undefined, "")

\* the return statement of transcribeUrl in each revision, given the parsed
\* engine output
TranscribeReturn(tv, result) ==
    LET hasText == "text" \in DOMAIN result
        hasLang == "language" \in DOMAIN result
        textNum == "textNum" \in DOMAIN result
    IN  IF tv = "T3"
        THEN \* String(result.language || "unknown"), String(result.text || "")
             IF result.kind = "null"
             THEN Threw("TypeError: Cannot read properties of null")
             ELSE Settled("ok",
                          IF hasText THEN result.text
                          ELSE IF textNum THEN Mk("number", 0, 1, 0) ELSE EmptyStr,
                          IF hasLang THEN result.language ELSE "unknown", "")
        ELSE \* typeof result?.text === "string" ? result.text : ""
             Settled("ok",
                     IF hasText THEN result.text ELSE EmptyStr,
                     IF hasLang THEN result.language
                     ELSE IF tv = "T1" THEN Undefined ELSE Null, "")

\* the finally block: await rm(tmp, ...) with .catch(() => {}) in T1 only
AfterCleanup(tv, held, rmOk) ==
    IF rmOk \/ tv = "T1" THEN held ELSE Threw("rm failed")

\* transcribeUrl up to the first await: mkdtemp is called
TStart ==
    /\ tpc' = "mkdtemp"
    /\ pending' = NotSettled
    /\ trOut' = NotSettled

\* mkdtemp settles; on success the audio download is spawned
TMkdtemp ==
    /\ tpc = "mkdtemp"
    /\ \E ok \in BOOLEAN :
        IF ok
        THEN /\ tmp' = "exists"
             /\ steps' = TPush(steps,
                    << <<"transcribe.dl.start", "Downloading audio with yt-dlp", NoData>>,
                       <<"exec.start", "yt-dlp args", NoData>> >>)
             /\ procs' = Append(procs, "yt-dlp")
             /\ tpc' = "download"
             /\ UNCHANGED trOut
        ELSE /\ trOut' = Threw("mkdtemp failed")
             /\ tpc' = "returned"
             /\ UNCHANGED << tmp, steps, procs >>
    /\ UNCHANGED << callVars, exits, ver, tver, pc, rmTried, pending, lateClose >>
    /\ UNCHANGED orchVars

\* how a subprocess ended: the code of 'close' ("error" when it could not be
\* started) and what JSON.parse made of its standard output
Exit(proc, code, stdout) == [proc |-> proc, code |-> code, stdout |-> stdout]

NoStdout == [kind |-> "unread"]

NotJson == [kind |-> "notjson"]

\* the audio download ends: 'close' with a code, or 'error'
TDownload ==
    /\ tpc = "download"
    /\ \E out \in {"exit0", "exitN", "spawnErr"} :
        CASE out = "exit0" ->
                /\ steps' = TPush(steps,
                       << <<"exec.done", "yt-dlp OK", NoData>>,
                          <<"transcribe.whisper.start", "Running whisper", NoData>>,
                          <<"execjson.start", "python args", NoData>> >>)
                /\ procs' = Append(procs, "python")
                /\ exits' = Append(exits, Exit("yt-dlp", "zero", NoStdout))
                /\ tpc' = "engine"
                /\ UNCHANGED << pending, lateClose >>
          [] out = "exitN" ->
                /\ steps' = TPush(steps, << <<"exec.fail", "yt-dlp failed", NoData>> >>)
                /\ pending' = Threw("yt-dlp failed")
                /\ exits' = Append(exits, Exit("yt-dlp", "nonzero", NoStdout))
                /\ tpc' = "cleanup"
                /\ UNCHANGED << procs, lateClose >>
          [] out = "spawnErr" ->
                /\ pending' = Threw("spawn yt-dlp ENOENT")
                /\ exits' = Append(exits, Exit("yt-dlp", "error", NoStdout))
                /\ lateClose' = IF HasPush THEN "run" ELSE lateClose
                /\ tpc' = "cleanup"
                /\ UNCHANGED << procs, steps >>
    /\ UNCHANGED << callVars, ver, tver, pc, rmTried, tmp, trOut >>
    /\ UNCHANGED orchVars

\* runJson resolving with an empty object when the output does not parse
TEngine_BadJsonResolves ==
    /\ tpc = "engine"
    /\ \/ /\ steps' = TPush(steps, << <<"execjson.fail", "python failed", NoData>> >>)
          /\ pending' = Threw("python failed")
          /\ exits' = Append(exits, Exit("python", "nonzero", NoStdout))
          /\ UNCHANGED lateClose
       \/ /\ pending' = Threw("spawn python ENOENT")
          /\ exits' = Append(exits, Exit("python", "error", NoStdout))
          /\ lateClose' = IF HasPush THEN "runJson" ELSE lateClose
          /\ UNCHANGED steps
       \/ /\ steps' = TPush(steps,
                 << <<"execjson.badjson", "Failed to parse JSON from python", NoData>> >>)
          /\ pending' = TranscribeReturn(tver, [kind |-> "object"])
          /\ exits' = Append(exits, Exit("python", "zero", NotJson))
          /\ UNCHANGED lateClose
       \/ \E result \in EngineResults :
            LET ret == TranscribeReturn(tver, result)
            IN  /\ steps' = TPush(steps,
                       << <<"execjson.done", "python JSON OK", Payload>>,
                          <<"transcribe.whisper.done", "Whisper done", Payload>> >>)
                /\ pending' = ret
                /\ exits' = Append(exits, Exit("python", "zero", result))
                /\ UNCHANGED lateClose
    /\ tpc' = "cleanup"
    /\ UNCHANGED << callVars, ver, tver, pc, rmTried, tmp, procs, trOut >>
    /\ UNCHANGED orchVars

\* the transcription engine ends
TEngine ==
    /\ tpc = "engine"
    /\ \/ /\ steps' = TPush(steps, << <<"execjson.fail", "python failed", NoData>> >>)
          /\ pending' = Threw("python failed")
          /\ exits' = Append(exits, Exit("python", "nonzero", NoStdout))
          /\ UNCHANGED lateClose
       \/ /\ pending' = Threw("spawn python ENOENT")
          /\ exits' = Append(exits, Exit("python", "error", NoStdout))
          /\ lateClose' = IF HasPush THEN "runJson" ELSE lateClose
          /\ UNCHANGED steps
       \/ /\ steps' = TPush(steps,
                 << <<"execjson.badjson", "Failed to parse JSON from python", NoData>> >>)
          /\ pending' = Threw("Failed to parse JSON from python")
          /\ exits' = Append(exits, Exit("python", "zero", NotJson))
          /\ UNCHANGED lateClose
       \/ \E result \in EngineResults :
            LET ret == TranscribeReturn(tver, result)
            IN  /\ steps' = TPush(steps,
                       << <<"execjson.done", "python JSON OK", Payload>>,
                          <<"transcribe.whisper.done", "Whisper done", Payload>> >>)
                /\ pending' = ret
                /\ exits' = Append(exits, Exit("python", "zero", result))
                /\ UNCHANGED lateClose
    /\ tpc' = "cleanup"
    /\ UNCHANGED << callVars, ver, tver, pc, rmTried, tmp, procs, trOut >>
    /\ UNCHANGED orchVars

\* transcribeUrl without finally: rm runs on the success path only
TCleanup_SuccessOnly ==
    /\ tpc = "cleanup"
    /\ IF pending.kind = "threw"
       THEN /\ trOut' = pending
            /\ UNCHANGED << tmp, rmTried >>
       ELSE \E rmOk \in BOOLEAN :
               /\ tmp' = IF rmOk THEN "removed" ELSE tmp
               /\ rmTried' = IF rmOk THEN "ok" ELSE "failed"
               /\ trOut' = AfterCleanup(tver, pending, rmOk)
    /\ tpc' = "returned"
    /\ pending' = NotSettled
    /\ UNCHANGED << callVars, exits, ver, tver, pc, steps, procs, lateClose >>
    /\ UNCHANGED orchVars

\* the finally block: rm settles and the promise of transcribeUrl settles
TCleanup ==
    /\ tpc = "cleanup"
    /\ \E rmOk \in BOOLEAN :
        /\ tmp' = IF rmOk THEN "removed" ELSE tmp
        /\ rmTried' = IF rmOk THEN "ok" ELSE "failed"
        /\ trOut' = AfterCleanup(tver, pending, rmOk)
    /\ tpc' = "returned"
    /\ pending' = NotSettled
    /\ UNCHANGED << callVars, exits, ver, tver, pc, steps, procs, lateClose >>
    /\ UNCHANGED orchVars

\* 'close' delivered after 'error': the handler pushes the failure event and
\* calls reject on the already rejected promise
TLateClose ==
    /\ lateClose # "none"
    /\ steps' = TPush(steps,
           IF lateClose = "run"
           THEN << <<"exec.fail", "yt-dlp failed", NoData>> >>
           ELSE << <<"execjson.fail", "python failed", NoData>> >>)
    /\ lateClose' = "none"
    /\ UNCHANGED << callVars, exits, ver, tver, pc, rmTried, tpc, tmp, procs, pending, trOut >>
    /\ UNCHANGED orchVars

(***************************************************************************)
(* route.ts: request bodies and BodySchema.                                *)
(***************************************************************************)
\* the URL the request bodies are varied around
MainUrl == [host |-> <<"w",".">> \o YOUTUBE_COM, path |-> <<"watch">>, v |-> "abc"]

AnyUrl == MainUrl

\* what req.json() yields: a failure to parse, or an object whose fields
\* have the right type, the wrong type, or are absent
Bodies ==
    { [json |-> FALSE] }
        \cup { [json |-> TRUE, urlValid |-> TRUE, url |-> MainUrl,
                pastedType |-> "string", pastedText |-> p,
                debugType |-> "boolean", debug |-> d] :
                  p \in PastedTexts, d \in BOOLEAN }
        \cup { [json |-> TRUE, urlValid |-> TRUE, url |-> u,
                pastedType |-> "string", pastedText |-> p,
                debugType |-> "absent", debug |-> FALSE] :
                  u \in Urls, p \in {EmptyStr, Mk("pasted", 0, MIN_TEXT, 0)} }
        \cup { [json |-> TRUE, urlValid |-> TRUE, url |-> u,
                pastedType |-> "absent", pastedText |-> EmptyStr,
                debugType |-> "boolean", debug |-> TRUE] : u \in Urls }
        \cup { [json |-> TRUE, urlValid |-> FALSE, url |-> AnyUrl,
                pastedType |-> "string", pastedText |-> EmptyStr,
                debugType |-> "boolean", debug |-> d] : d \in BOOLEAN }
        \cup { [json |-> TRUE, urlValid |-> TRUE, url |-> AnyUrl,
                pastedType |-> "number", pastedText |-> EmptyStr,
                debugType |-> "absent", debug |-> FALSE],
               [json |-> TRUE, urlValid |-> TRUE, url |-> AnyUrl,
                pastedType |-> "absent", pastedText |-> EmptyStr,
                debugType |-> "string", debug |-> FALSE] }

\* a schema whose url is any string: z.string() without .url()
BodySchemaOk_AnyUrl(b) ==
    /\ b.pastedType \in {"string", "absent"}
    /\ b.debugType \in {"boolean", "absent"}

\* BodySchema.parse: z.object({url: z.string().url(), pastedText:
\* z.string().optional().default(""), whisperModel: ..., debug:
\* z.boolean().optional().default(false)})
BodySchemaOk(b) ==
    /\ b.urlValid
    /\ b.pastedType \in {"string", "absent"}
    /\ b.debugType \in {"boolean", "absent"}

BodySchemaParse(b, defaultModel) ==
    [ url |-> b.url,
      pastedText |-> IF b.pastedType = "string" THEN b.pastedText ELSE EmptyStr,
      whisperModel |-> defaultModel,
      debug |-> IF b.debugType = "boolean" THEN b.debug ELSE FALSE ]

NoReq == [url |-> AnyUrl, pastedText |-> EmptyStr, whisperModel |-> "", debug |-> FALSE]

(***************************************************************************)
(* route.ts: the combined corpus.                                          *)
(***************************************************************************)
TitleLabel == <<Run("TITLE:", FALSE, 6), Run("ws", TRUE, 1)>>
AuthorLabel == <<Run("AUTHOR:", FALSE, 7), Run("ws", TRUE, 1)>>
SourceLabel == <<Run("SOURCE TEXT:", FALSE, 12), Run("ws", TRUE, 1)>>
PastedLabel == <<Run("PASTED TEXT:", FALSE, 12), Run("ws", TRUE, 1)>>
BlankLine == <<Run("ws", TRUE, 2)>>

\* a field of the source object, "" when it is undefined
Field(src, k) == IF k \in DOMAIN src THEN src[k] ELSE EmptyStr

RECURSIVE Join(_, _)
\* Array.prototype.join
Join(parts, sep) ==
    IF parts = << >> THEN EmptyStr
    ELSE IF Len(parts) = 1 THEN parts[1]
    ELSE parts[1] \o sep \o Join(Tail(parts), sep)

\* the corpus joined without dropping the empty parts
CombineText_NoFilter(src, pastedText) ==
    LET parts ==
            << IF Truthy(Field(src, "title")) THEN TitleLabel \o src.title ELSE EmptyStr,
               IF Truthy(Field(src, "author")) THEN AuthorLabel \o src.author ELSE EmptyStr,
               IF Truthy(Field(src, "text")) THEN SourceLabel \o src.text ELSE EmptyStr,
               IF Truthy(Trim(pastedText)) THEN PastedLabel \o Trim(pastedText)
               ELSE EmptyStr >>
    IN  Join(parts, BlankLine)

\* [title ? `TITLE: ...` : "", author ? ..., text ? ..., pasted.trim() ? ...]
\*     .filter(Boolean).join("\n\n")
CombineText(src, pastedText) ==
    LET parts ==
            << IF Truthy(Field(src, "title")) THEN TitleLabel \o src.title ELSE EmptyStr,
               IF Truthy(Field(src, "author")) THEN AuthorLabel \o src.author ELSE EmptyStr,
               IF Truthy(Field(src, "text")) THEN SourceLabel \o src.text ELSE EmptyStr,
               IF Truthy(Trim(pastedText)) THEN PastedLabel \o Trim(pastedText)
               ELSE EmptyStr >>
    IN  Join(SelectSeq(parts, Truthy), BlankLine)

\* recipe.ts extractRecipe as the handler sees it: the title comes from the
\* sourceTitle hint when it is truthy, sourceUrl is carried over
RecipeOf(fullText, opts) ==
    [ title |-> IF Truthy(opts.sourceTitle) THEN opts.sourceTitle
                ELSE Mk("guessed", 0, 1, 0),
      sourceUrl |-> opts.sourceUrl ]

(***************************************************************************)
(* route.ts, revision with in-process transcription (MIN_TEXT).            *)
(***************************************************************************)
NotSent == [sent |-> FALSE]

Sent == "ok" \in DOMAIN response

\* debug ? steps : steps.map(strip)
Steps1(debug, s) == IF debug THEN JsonSteps(s) ELSE StripSteps(s)

\* the trigger measured on the untrimmed text
NeedsTranscribe1_Untrimmed(src) ==
    ~Truthy(Field(src, "text")) \/ StrLen(Field(src, "text")) < MIN_TEXT

\* the trigger with a threshold of its own, lower than the gate's
NeedsTranscribe1_LowerTrigger(src) ==
    ~Truthy(Field(src, "text"))
        \/ StrLen(Trim(Field(src, "text"))) < MIN_TEXT - LabelLen - 1

\* if (!source.text || source.text.trim().length < MIN_TEXT)
NeedsTranscribe1(src) ==
    ~Truthy(Field(src, "text")) \/ StrLen(Trim(Field(src, "text"))) < MIN_TEXT

\* the gate with its comparison off by one
NotEnough1_OffByOne(combined) == StrLen(Trim(combined)) <= MIN_TEXT

\* if (combinedText.trim().length < MIN_TEXT)
NotEnough1(combined) == StrLen(Trim(combined)) < MIN_TEXT

\* the 502 response of the gate
Resp1NotEnough(src, used, werr, debug, s) ==
    [ ok |-> FALSE, status |-> 502,
      error |-> "Couldn't get enough transcript text",
      step |-> "combine.not_enough_text",
      usedWhisper |-> used, sourceUsed |-> src, steps |-> Steps1(debug, s) ]
        @@ Opt("whisperError", werr # Undefined, werr)

\* the success response
Resp1Ok(recipe, src, used, werr, debug, s) ==
    [ ok |-> TRUE, status |-> 200, recipe |-> recipe, sourceUsed |-> src,
      usedWhisper |-> used,
      whisperError |-> IF werr = Undefined THEN Null ELSE werr,
      steps |-> Steps1(debug, s) ]

\* the catch block answering without the trace
Resp1Catch_NoTrace(s, msg) ==
    [ ok |-> FALSE, status |-> 400, error |-> msg, steps |-> << >> ]

\* the response of the catch block
Resp1Catch(s, msg) ==
    [ ok |-> FALSE, status |-> 400, error |-> msg, steps |-> StripSteps(s) ]

\* catch (err): push("extract.error", msg) and answer
Catch1(s, msg) ==
    LET s2 == Push(s, "extract.error", msg, NoData)
    IN  /\ steps' = s2
        /\ response' = Resp1Catch(s2, msg)
        /\ exitPath' = "catch"
        /\ pc' = "failed"

\* push("extract.start"), req.json(), BodySchema.parse, push("source.fetch.start")
P1_Parse ==
    /\ ver = "V1" /\ pc = "start"
    /\ \E b \in Bodies :
        LET s1 == Push(steps, "extract.start", "Parsing request body", NoData)
        IN  /\ body' = b
            /\ IF ~b.json
               THEN Catch1(s1, "Unexpected token in JSON") /\ UNCHANGED req
               ELSE IF ~BodySchemaOk(b)
               THEN Catch1(s1, "ZodError: invalid input") /\ UNCHANGED req
               ELSE /\ req' = BodySchemaParse(b, "tiny")
                    /\ steps' = Push(s1, "source.fetch.start",
                                     "Fetching platform-native text", NoData)
                    /\ pc' = "resolving"
                    /\ UNCHANGED << response, exitPath >>
    /\ UNCHANGED << callVars, exits, ver, tver, rmTried, currentStep, source, usedWhisper, whisperError,
                    combinedText, fetchLog, calls, tpc, tmp, procs, pending,
                    trOut, lateClose, transport >>

\* fetchSourceText settles; the handler decides whether to transcribe
P1_Resolve ==
    /\ ver = "V1" /\ pc = "resolving"
    /\ \E env \in ResolverEnvs(req.url, MIN_TEXT) :
        LET r == fetchSourceText(req.url, env)
            s1 == Push(steps, "source.fetch.done", "Fetched platform-native text",
                       Payload)
        IN  /\ source' = r.source
            /\ fetchLog' = r.fetches
            /\ IF NeedsTranscribe1(r.source)
               THEN /\ steps' = Push(s1, "transcribe.start", "Running whisper", NoData)
                    /\ calls' = [calls EXCEPT !.resolver = @ + 1, !.transcribe = @ + 1]
                    /\ pc' = "transcribing"
                    /\ TStart
               ELSE /\ steps' = Push(s1, "transcribe.skip",
                                     "Platform text was sufficient", NoData)
                    /\ calls' = [calls EXCEPT !.resolver = @ + 1]
                    /\ pc' = "combining"
                    /\ UNCHANGED << tpc, pending, trOut >>
    /\ UNCHANGED << callVars, exits, ver, tver, body, rmTried, req, currentStep, usedWhisper, whisperError,
                    combinedText, response, exitPath, tmp, procs, lateClose, transport >>

\* the try/catch with a catch block that records nothing
WhisperOutcome1_SilentCatch(out) ==
    IF out.kind = "ok" /\ Truthy(Trim(out.text))
    THEN [used |-> TRUE, error |-> Undefined,
          ev |-> <<"transcribe.done", "Whisper text set", Payload>>]
    ELSE [used |-> FALSE, error |-> Undefined,
          ev |-> <<"transcribe.exception", "", NoData>>]

\* the try/catch around transcribeUrl: what it records for a settled call
WhisperOutcome1(out) ==
    IF out.kind = "ok"
    THEN IF Truthy(Trim(out.text))
         THEN [used |-> TRUE, error |-> Undefined,
               ev |-> <<"transcribe.done", "Whisper text set", Payload>>]
         ELSE [used |-> FALSE, error |-> "Transcribe returned empty text.",
               ev |-> <<"transcribe.empty", "Transcribe returned empty text.", NoData>>]
    ELSE [used |-> FALSE, error |-> out.msg,
          ev |-> <<"transcribe.exception", out.msg, NoData>>]

\* the handler taking whatever text the call returned, blank or not
P1_AfterTranscribe_TakesBlank ==
    /\ ver = "V1" /\ pc = "transcribing" /\ tpc = "returned"
    /\ LET o == WhisperOutcome1(trOut)
       IN  /\ source' = IF trOut.kind = "ok" THEN [source EXCEPT !.text = trOut.text]
                         ELSE source
           /\ usedWhisper' = o.used
           /\ whisperError' = o.error
           /\ steps' = PushAll(steps, <<o.ev>>)
    /\ pc' = "combining"
    /\ UNCHANGED << callVars, exits, ver, tver, body, rmTried, req, currentStep, combinedText,
                    response, exitPath, fetchLog, calls, tpc, tmp, procs, pending,
                    trOut, lateClose, transport >>

\* transcribeUrl settled
P1_AfterTranscribe ==
    /\ ver = "V1" /\ pc = "transcribing" /\ tpc = "returned"
    /\ LET o == WhisperOutcome1(trOut)
       IN  /\ source' = IF o.used THEN [source EXCEPT !.text = trOut.text] ELSE source
           /\ usedWhisper' = o.used
           /\ whisperError' = o.error
           /\ steps' = PushAll(steps, <<o.ev>>)
    /\ pc' = "combining"
    /\ UNCHANGED << callVars, exits, ver, tver, body, rmTried, req, currentStep, combinedText,
                    response, exitPath, fetchLog, calls, tpc, tmp, procs, pending,
                    trOut, lateClose, transport >>

\* the corpus is built and gated; extractRecipe is called when it passes
P1_Combine ==
    /\ ver = "V1" /\ pc = "combining"
    /\ LET combined == CombineText(source, req.pastedText)
           s2 == PushAll(steps,
                    << <<"combine.start", "Combining text sources", NoData>>,
                       <<"combine.done", "Combined text ready", Payload>> >>)
       IN  /\ combinedText' = combined
           /\ IF NotEnough1(combined)
              THEN /\ steps' = s2
                   /\ response' = Resp1NotEnough(source, usedWhisper, whisperError,
                                                 req.debug, s2)
                   /\ exitPath' = "return"
                   /\ pc' = "failed"
                   /\ UNCHANGED calls
              ELSE /\ steps' = Push(s2, "recipe.extract.start", "Extracting recipe",
                                    NoData)
                   /\ calls' = [calls EXCEPT !.extract = @ + 1]
                   /\ pc' = "extracting"
                   /\ UNCHANGED << response, exitPath >>
    /\ UNCHANGED << callVars, exits, ver, tver, body, rmTried, req, currentStep, source, usedWhisper, whisperError,
                    fetchLog, tpc, tmp, procs, pending, trOut, lateClose, transport >>

\* extractRecipe settles and the success response is sent
P1_Extract ==
    /\ ver = "V1" /\ pc = "extracting"
    /\ LET recipe == RecipeOf(combinedText,
                        [sourceUrl |-> req.url, sourceTitle |-> Field(source, "title")])
           s1 == Push(steps, "recipe.extract.done", "Recipe extracted", Payload)
       IN  /\ steps' = s1
           /\ response' = Resp1Ok(recipe, source, usedWhisper, whisperError,
                                  req.debug, s1)
    /\ exitPath' = "return"
    /\ pc' = "done"
    /\ UNCHANGED << callVars, exits, ver, tver, body, rmTried, req, currentStep, source, usedWhisper, whisperError,
                    combinedText, fetchLog, calls, tpc, tmp, procs, pending, trOut,
                    lateClose, transport >>

(***************************************************************************)
(* transcribe/route.ts: POST of /api/transcribe around transcribeUrl.      *)
(***************************************************************************)
\* Response.json({ok: true, ...res}) or the 400 of the catch block
TranscribeRoute(out) ==
    IF out.kind = "ok"
    THEN [status |-> 200, ok |-> TRUE, text |-> out.text, error |-> ""]
    ELSE [status |-> 400, ok |-> FALSE, text |-> EmptyStr, error |-> out.msg]

(***************************************************************************)
(* route.ts, revision calling /api/transcribe (minChars, currentStep).     *)
(***************************************************************************)
Transports == {"ok", "networkError", "htmlError"}

\* const sourceTextLen = (source?.text ?? "").trim().length;
\* if (sourceTextLen < minChars)
NeedsTranscribe2(src) == StrLen(Trim(Field(src, "text"))) < minChars

\* if (combinedText.trim().length < minChars)
NotEnough2(combined) == StrLen(Trim(combined)) < minChars

\* the gate answering like the catch block: no source info
Resp2NotEnough_AsError(cur, src, used, werr, debug, s) ==
    [ ok |-> FALSE, status |-> 400, step |-> cur,
      error |-> "Not enough text to extract a recipe.", steps |-> JsonSteps(s) ]

\* the 400 response of the gate
Resp2NotEnough(cur, src, used, werr, debug, s) ==
    [ ok |-> FALSE, status |-> 400, step |-> cur,
      error |-> "Not enough text to extract a recipe.",
      sourceUsed |-> src, usedWhisper |-> used, steps |-> JsonSteps(s) ]
        @@ Opt("whisperError", debug /\ werr # Undefined, werr)

\* the success response
Resp2Ok(recipe, src, used, werr, debug, s) ==
    [ ok |-> TRUE, status |-> 200, recipe |-> recipe, sourceUsed |-> src,
      usedWhisper |-> used, steps |-> JsonSteps(s) ]
        @@ Opt("whisperError", debug /\ werr # Undefined, werr)

\* the response of the catch block
Resp2Catch(cur, s, msg) ==
    [ ok |-> FALSE, status |-> 400, step |-> cur, error |-> msg,
      steps |-> JsonSteps(s) ]

\* catch (err): steps.push({step: "exception", msg, data: {at: currentStep}})
Catch2(s, cur, msg) ==
    LET s2 == Push(s, "exception", msg, [at |-> cur])
    IN  /\ steps' = s2
        /\ currentStep' = cur
        /\ response' = Resp2Catch(cur, s2, msg)
        /\ exitPath' = "catch"
        /\ pc' = "failed"

\* parse.body, validate.body, env, fetchSourceText is called
P2_Parse ==
    /\ ver = "V2" /\ pc = "start"
    /\ \E b \in Bodies :
        LET s1 == Push(steps, "parse.body", "Reading request JSON", NoData)
            s2 == Push(s1, "validate.body", "Validating input schema", NoData)
        IN  /\ body' = b
            /\ IF ~b.json
               THEN Catch2(s1, "parse.body", "Unexpected token in JSON") /\ UNCHANGED req
               ELSE IF ~BodySchemaOk(b)
               THEN Catch2(s2, "validate.body", "ZodError: invalid input")
                    /\ UNCHANGED req
               ELSE /\ req' = BodySchemaParse(b, "base")
                    /\ steps' = PushAll(s2,
                           << <<"env", "origin", Payload>>,
                              <<"fetchSourceText", "Fetching platform text", Payload>> >>)
                    /\ currentStep' = "fetchSourceText"
                    /\ pc' = "resolving"
                    /\ UNCHANGED << response, exitPath >>
    /\ UNCHANGED << callVars, exits, ver, tver, rmTried, source, usedWhisper, whisperError, combinedText,
                    fetchLog, calls, tpc, tmp, procs, pending, trOut, lateClose,
                    transport >>

\* fetchSourceText settles; the handler decides whether to call /api/transcribe
P2_Resolve ==
    /\ ver = "V2" /\ pc = "resolving"
    /\ \E env \in ResolverEnvs(req.url, minChars) :
        LET r == fetchSourceText(req.url, env)
            s1 == Push(steps, "fetchSourceText.done", "Fetched platform result",
                       Payload)
        IN  /\ source' = r.source
            /\ fetchLog' = r.fetches
            /\ IF NeedsTranscribe2(r.source)
               THEN /\ steps' = Push(s1, "transcribe.fallback",
                                     "Platform text insufficient", Payload)
                    /\ currentStep' = "transcribe.fetch"
                    /\ calls' = [calls EXCEPT !.resolver = @ + 1, !.transcribe = @ + 1]
                    /\ pc' = "transcribing"
                    /\ \E tp \in Transports :
                        /\ transport' = tp
                        /\ IF tp = "ok" THEN TStart
                           ELSE UNCHANGED << tpc, pending, trOut >>
               ELSE /\ steps' = Push(s1, "transcribe.skip",
                                     "Platform text sufficient; skipping Whisper",
                                     Payload)
                    /\ calls' = [calls EXCEPT !.resolver = @ + 1]
                    /\ pc' = "combining"
                    /\ UNCHANGED << currentStep, tpc, pending, trOut, transport >>
    /\ UNCHANGED << callVars, exits, ver, tver, body, rmTried, req, usedWhisper, whisperError, combinedText,
                    response, exitPath, tmp, procs, lateClose >>

\* the inner try/catch around the fetch to /api/transcribe: what it records
\* for each fate of the fetch and each answer of the route
WhisperOutcome2(tp, out) ==
    LET tr == TranscribeRoute(out)
        done == <<"transcribe.fetch.done",
                  IF tp = "htmlError" THEN "HTTP 502"
                  ELSE IF tr.status = 200 THEN "HTTP 200" ELSE "HTTP 400", Payload>>
    IN  IF tp = "networkError"
        THEN [used |-> FALSE, error |-> "fetch failed", cur |-> "transcribe.fetch",
              evs |-> << <<"transcribe.exception", "fetch failed", NoData>> >>]
        ELSE IF tp = "htmlError"
        THEN [used |-> FALSE, error |-> "Transcribe returned invalid JSON",
              cur |-> "transcribe.parse",
              evs |-> << done, <<"transcribe.exception",
                                 "Transcribe returned invalid JSON", NoData>> >>]
        ELSE IF tr.status # 200
        THEN [used |-> FALSE, error |-> tr.error, cur |-> "transcribe.parse",
              evs |-> << done, <<"transcribe.error", tr.error, Payload>> >>]
        ELSE IF tr.ok /\ Truthy(Trim(tr.text))
        THEN [used |-> TRUE, error |-> Undefined, cur |-> "transcribe.parse",
              evs |-> << done, <<"transcribe.success", "Whisper text applied",
                                 Payload>> >>]
        ELSE [used |-> FALSE, error |-> "Transcribe returned no text.",
              cur |-> "transcribe.parse",
              evs |-> << done, <<"transcribe.empty", "Transcribe returned no text.",
                                 Payload>> >>]

\* the fetch to /api/transcribe settles
P2_AfterTranscribe ==
    /\ ver = "V2" /\ pc = "transcribing"
    /\ \/ transport \in {"networkError", "htmlError"}
       \/ transport = "ok" /\ tpc = "returned"
    /\ LET o == WhisperOutcome2(transport, trOut)
       IN  /\ source' = IF o.used THEN [source EXCEPT !.text = trOut.text] ELSE source
           /\ usedWhisper' = o.used
           /\ whisperError' = o.error
           /\ currentStep' = o.cur
           /\ steps' = PushAll(steps, o.evs)
    /\ pc' = "combining"
    /\ UNCHANGED << callVars, exits, ver, tver, body, rmTried, req, combinedText, response, exitPath,
                    fetchLog, calls, tpc, tmp, procs, pending, trOut, lateClose,
                    transport >>

\* the corpus is built and gated; extractRecipe is called when it passes
P2_Combine ==
    /\ ver = "V2" /\ pc = "combining"
    /\ LET combined == CombineText(source, req.pastedText)
           s2 == PushAll(steps,
                    << <<"combine.text", "Combining source + pasted text", NoData>>,
                       <<"combine.text.done", "Combined text built", Payload>> >>)
       IN  /\ combinedText' = combined
           /\ IF NotEnough2(combined)
              THEN LET s3 == Push(s2, "reject.notEnoughText",
                                  "Not enough text to extract recipe", Payload)
                   IN  /\ steps' = s3
                       /\ currentStep' = "reject.notEnoughText"
                       /\ response' = Resp2NotEnough("reject.notEnoughText", source,
                                          usedWhisper, whisperError, req.debug, s3)
                       /\ exitPath' = "return"
                       /\ pc' = "failed"
                       /\ UNCHANGED calls
              ELSE /\ steps' = Push(s2, "extractRecipe", "Running recipe extraction",
                                    NoData)
                   /\ currentStep' = "extractRecipe"
                   /\ calls' = [calls EXCEPT !.extract = @ + 1]
                   /\ pc' = "extracting"
                   /\ UNCHANGED << response, exitPath >>
    /\ UNCHANGED << callVars, exits, ver, tver, body, rmTried, req, source, usedWhisper, whisperError, fetchLog,
                    tpc, tmp, procs, pending, trOut, lateClose, transport >>

\* extractRecipe settles and the success response is sent
P2_Extract ==
    /\ ver = "V2" /\ pc = "extracting"
    /\ LET recipe == RecipeOf(combinedText,
                        [sourceUrl |-> req.url, sourceTitle |-> Field(source, "title")])
           s2 == PushAll(steps,
                    << <<"extractRecipe.done", "Recipe extracted", Payload>>,
                       <<"done", "Success", NoData>> >>)
       IN  /\ steps' = s2
           /\ response' = Resp2Ok(recipe, source, usedWhisper, whisperError,
                                  req.debug, s2)
    /\ currentStep' = "done"
    /\ exitPath' = "return"
    /\ pc' = "done"
    /\ UNCHANGED << callVars, exits, ver, tver, body, rmTried, req, source, usedWhisper, whisperError, combinedText,
                    fetchLog, calls, tpc, tmp, procs, pending, trOut, lateClose,
                    transport >>

(***************************************************************************)
(* The system: one request served by one revision of the handler.          *)
(***************************************************************************)
\* nothing of a request has happened yet
Idle ==
    /\ pc = "start"
    /\ body = [json |-> FALSE]
    /\ req = NoReq
    /\ steps = << >>
    /\ currentStep = "start"
    /\ source = [platform |-> "unknown", text |-> EmptyStr]
    /\ usedWhisper = FALSE
    /\ whisperError = Undefined
    /\ combinedText = EmptyStr
    /\ response = NotSent
    /\ exitPath = "none"
    /\ fetchLog = << >>
    /\ calls = [resolver |-> 0, transcribe |-> 0, extract |-> 0]
    /\ tpc = "idle"
    /\ tmp = "none"
    /\ rmTried = "none"
    /\ procs = << >>
    /\ pending = NotSettled
    /\ trOut = NotSettled
    /\ lateClose = "none"
    /\ transport = "none"
    /\ exits = << >>

Init ==
    /\ ver \in {"V1", "V2"}
    /\ tver \in IF ver = "V1" THEN {"T1"} ELSE {"T1", "T2", "T3"}
    /\ Idle
    /\ input = NoCall
    /\ output = NoCall
    /\ earlier = NoCall
    /\ handlers = NoHandlers
    /\ tmpdirs = {}

Next ==
    \/ P1_Parse
    \/ P1_Resolve
    \/ P1_AfterTranscribe
    \/ P1_Combine
    \/ P1_Extract
    \/ P2_Parse
    \/ P2_Resolve
    \/ P2_AfterTranscribe
    \/ P2_Combine
    \/ P2_Extract
    \/ TMkdtemp
    \/ TDownload
    \/ TEngine
    \/ TCleanup
    \/ TLateClose

Spec == Init /\ [][Next]_vars

(***************************************************************************)
(* platform.ts: extractJsonObject.  Here a text is the sequence of its     *)
(* characters.                                                             *)
(***************************************************************************)
QUOTE == "\""

BACKSLASH == "\\"

\* String.prototype.indexOf(needle, from), 1-based; 0 where JS yields -1
IndexFrom(s, needle, from) ==
    LET hits == { i \in from..(Len(s) - Len(needle) + 1) :
                     SubSeq(s, i, i + Len(needle) - 1) = needle }
    IN  IF hits = {} THEN 0 ELSE CHOOSE i \in hits : \A j \in hits : i <= j

RECURSIVE ParseString(_, _, _)
RECURSIVE ParseMembers(_, _, _)
RECURSIVE ParseDigits(_, _, _)

ParseFail == [ok |-> FALSE]

\* the value null as extractJsonObject returns it
JsonNull == [null |-> TRUE]

\* JSON.parse inside a string literal, i after the opening quote: \" and \\
\* are unescaped
ParseString(t, i, acc) ==
    IF i > Len(t) THEN ParseFail
    ELSE IF t[i] = QUOTE THEN [ok |-> TRUE, val |-> [str |-> acc], next |-> i + 1]
    ELSE IF t[i] = BACKSLASH
    THEN IF i + 1 <= Len(t) /\ t[i + 1] \in {QUOTE, BACKSLASH}
         THEN ParseString(t, i + 2, Append(acc, t[i + 1]))
         ELSE ParseFail
    ELSE ParseString(t, i + 1, Append(acc, t[i]))

Digits == {"0", "1", "2", "3", "4", "5", "6", "7", "8", "9"}

ParseDigits(t, i, acc) ==
    IF i <= Len(t) /\ t[i] \in Digits THEN ParseDigits(t, i + 1, Append(acc, t[i]))
    ELSE [ok |-> TRUE, val |-> [num |-> acc], next |-> i]

\* JSON.parse of a value starting at i: a string, a number or an object
ParseValue(t, i) ==
    IF i > Len(t) THEN ParseFail
    ELSE IF t[i] = QUOTE THEN ParseString(t, i + 1, << >>)
    ELSE IF t[i] \in Digits THEN ParseDigits(t, i, << >>)
    ELSE IF t[i] = "{"
    THEN IF i + 1 <= Len(t) /\ t[i + 1] = "}"
         THEN [ok |-> TRUE, val |-> [obj |-> << >>], next |-> i + 2]
         ELSE ParseMembers(t, i + 1, << >>)
    ELSE ParseFail

\* the members of an object, i at the quote of the next key
ParseMembers(t, i, acc) ==
    IF i > Len(t) \/ t[i] # QUOTE THEN ParseFail
    ELSE LET k == ParseString(t, i + 1, << >>)
         IN  IF ~k.ok \/ k.next > Len(t) \/ t[k.next] # ":" THEN ParseFail
             ELSE LET v == ParseValue(t, k.next + 1)
                  IN  IF ~v.ok \/ v.next > Len(t) THEN ParseFail
                      ELSE LET acc2 == Append(acc, <<k.val.str, v.val>>)
                           IN  IF t[v.next] = "}"
                               THEN [ok |-> TRUE, val |-> [obj |-> acc2],
                                     next |-> v.next + 1]
                               ELSE IF t[v.next] = ","
                               THEN ParseMembers(t, v.next + 1, acc2)
                               ELSE ParseFail

\* try { return JSON.parse(jsonText) } catch { return null }
JsonParseOrNull(t) ==
    LET r == ParseValue(t, 1)
    IN  IF r.ok /\ r.next = Len(t) + 1 THEN r.val ELSE JsonNull

RECURSIVE ScanBraces_NoStrings(_, _, _, _, _)
\* the scanner counting every brace, quoted or not
ScanBraces_NoStrings(html, i, depth, inStr, esc) ==
    IF i > Len(html) THEN 0
    ELSE IF html[i] = "{" THEN ScanBraces_NoStrings(html, i + 1, depth + 1, inStr, esc)
    ELSE IF html[i] = "}"
    THEN IF depth - 1 = 0 THEN i
         ELSE ScanBraces_NoStrings(html, i + 1, depth - 1, inStr, esc)
    ELSE ScanBraces_NoStrings(html, i + 1, depth, inStr, esc)

RECURSIVE ScanBraces(_, _, _, _, _)
\* the for loop of extractJsonObject from position i with depth, inStr, esc:
\* the position of the brace that brings depth back to 0, or 0 when the text
\* ends first
ScanBraces(html, i, depth, inStr, esc) ==
    IF i > Len(html) THEN 0
    ELSE LET ch == html[i]
         IN  IF inStr
             THEN IF esc THEN ScanBraces(html, i + 1, depth, TRUE, FALSE)
                  ELSE IF ch = BACKSLASH THEN ScanBraces(html, i + 1, depth, TRUE, TRUE)
                  ELSE IF ch = QUOTE THEN ScanBraces(html, i + 1, depth, FALSE, esc)
                  ELSE ScanBraces(html, i + 1, depth, TRUE, esc)
             ELSE IF ch = QUOTE THEN ScanBraces(html, i + 1, depth, TRUE, esc)
                  ELSE IF ch = "{" THEN ScanBraces(html, i + 1, depth + 1, FALSE, esc)
                  ELSE IF ch = "}"
                  THEN IF depth - 1 = 0 THEN i
                       ELSE ScanBraces(html, i + 1, depth - 1, FALSE, esc)
                  ELSE ScanBraces(html, i + 1, depth, FALSE, esc)

\* platform.ts extractJsonObject
extractJsonObject(html, marker) ==
    LET idx == IndexFrom(html, marker, 1)
        start == IF idx = 0 THEN 0 ELSE IndexFrom(html, <<"{">>, idx)
        end == IF start = 0 THEN 0 ELSE ScanBraces(html, start, 0, FALSE, FALSE)
    IN  IF idx = 0 \/ start = 0 \/ end = 0 THEN JsonNull
        ELSE JsonParseOrNull(SubSeq(html, start, end))

\* the marker the scanner is asked to look for
Marker == <<"m", "a", "r", "k", "e", "r">>

\* contents of the string values of the embedded object: braces, a quote
\* and a backslash among them
StringValues ==
    { << >>, <<"b", "{", "c", "}">>, <<"}">>, <<"a", QUOTE, "}">>, <<BACKSLASH>> }

JsonLeaves == { [str |-> s] : s \in StringValues } \cup { [num |-> <<"1">>] }

RECURSIVE JsonObjects(_)
\* objects nested at most d deep, with keys a and d
JsonObjects(d) ==
    LET vals == JsonLeaves \cup (IF d = 0 THEN {} ELSE JsonObjects(d - 1))
    IN  { [obj |-> << >>] }
            \cup { [obj |-> << <<<<"a">>, v>> >>] : v \in vals }
            \cup { [obj |-> << <<<<"a">>, v>>, <<<<"d">>, w>> >>] :
                       v \in vals, w \in JsonLeaves }

RECURSIVE EscapeString(_)
\* JSON.stringify of the characters of a string
EscapeString(s) ==
    IF s = << >> THEN << >>
    ELSE (IF Head(s) \in {QUOTE, BACKSLASH} THEN <<BACKSLASH, Head(s)>> ELSE <<Head(s)>>)
             \o EscapeString(Tail(s))

RECURSIVE Stringify(_)
RECURSIVE StringifyMembers(_)
\* JSON.stringify: the page's text of a value
Stringify(v) ==
    IF "str" \in DOMAIN v THEN <<QUOTE>> \o EscapeString(v.str) \o <<QUOTE>>
    ELSE IF "num" \in DOMAIN v THEN v.num
    ELSE <<"{">> \o StringifyMembers(v.obj) \o <<"}">>

StringifyMembers(ms) ==
    IF ms = << >> THEN << >>
    ELSE <<QUOTE>> \o EscapeString(Head(ms)[1]) \o <<QUOTE, ":">> \o Stringify(Head(ms)[2])
             \o (IF Len(ms) > 1 THEN <<",">> ELSE << >>)
             \o StringifyMembers(Tail(ms))

RECURSIVE Repeat(_, _)
Repeat(s, n) == IF n = 0 THEN << >> ELSE s \o Repeat(s, n - 1)

\* what follows the object on the page: closing braces and other text
Trailers ==
    { Repeat(<<"}">>, n) : n \in 0..MaxTrail }
        \cup { <<";", "{", "}">>, <<QUOTE, "}">> }

\* a page holding the marker, an object and a trailer
ScanInputs ==
    { [fn |-> "extractJsonObject",
       html |-> pre \o Marker \o mid \o Stringify(o) \o tr,
       marker |-> Marker, object |-> o] :
         pre \in {<< >>, <<"<", "}", QUOTE>>}, mid \in {<< >>, <<" ", "=", " ">>},
         o \in JsonObjects(MaxNest), tr \in Trailers }

(***************************************************************************)
(* platform.ts: the recipe extractor (clean, uniq, splitSentences,         *)
(* guessTitle, extractIngredientCandidates, extractSteps, extractRecipe),  *)
(* on texts as sequences of characters.  The characters of the model are   *)
(* ASCII: of the separators [-–•] only the hyphen, and of the verbs and    *)
(* time words those without accent or degree sign, occur.                  *)
(***************************************************************************)
MinSentence == 3

StepCap == 18

IngredientCap == 40

TitleCap == 80

LineCap == 120

SectionCap == 3000

TailCap == 60

Uppers ==
    <<"A", "B", "C", "D", "E", "F", "G", "H", "I", "J", "K", "L", "M", "N",
      "O", "P", "Q", "R", "S", "T", "U", "V", "W", "X", "Y", "Z">>

Lowers ==
    <<"a", "b", "c", "d", "e", "f", "g", "h", "i", "j", "k", "l", "m", "n",
      "o", "p", "q", "r", "s", "t", "u", "v", "w", "x", "y", "z">>

LetterSet == { Uppers[i] : i \in 1..Len(Uppers) } \cup { Lowers[i] : i \in 1..Len(Lowers) }

\* a character as the i flag compares it
Lower(c) ==
    IF \E i \in 1..Len(Uppers) : Uppers[i] = c
    THEN Lowers[CHOOSE i \in 1..Len(Uppers) : Uppers[i] = c]
    ELSE c

ToLower(s) == [i \in 1..Len(s) |-> Lower(s[i])]

\* \s
IsSpace(c) == c \in {" ", "\n", "\t"}

\* \w
IsWordChar(c) == c \in LetterSet \cup Digits \cup {"_"}

\* \b between s[i - 1] and s[i]
WordBoundary(s, i) ==
    (i > 1 /\ i - 1 <= Len(s) /\ IsWordChar(s[i - 1])) # (i <= Len(s) /\ IsWordChar(s[i]))

\* s.slice(0, n)
Take(s, n) == SubSeq(s, 1, IF Len(s) < n THEN Len(s) ELSE n)

RECURSIVE SkipWs(_, _)
\* the position after the whitespace that starts at i
SkipWs(s, i) == IF i <= Len(s) /\ IsSpace(s[i]) THEN SkipWs(s, i + 1) ELSE i

RECURSIVE BackWs(_, _)
\* the position before the whitespace that ends at i
BackWs(s, i) == IF i >= 1 /\ IsSpace(s[i]) THEN BackWs(s, i - 1) ELSE i

\* String.prototype.trim on characters
TrimChars(s) == SubSeq(s, SkipWs(s, 1), BackWs(s, Len(s)))

\* the positions 1..n, in order
Positions(n) == [i \in 1..n |-> i]

\* s.replace(/\s+/g, " "): one space where a run of whitespace starts
Collapse(s) ==
    LET kept == SelectSeq(Positions(Len(s)),
                          LAMBDA i : ~IsSpace(s[i]) \/ i = 1 \/ ~IsSpace(s[i - 1]))
    IN  [k \in 1..Len(kept) |-> IF IsSpace(s[kept[k]]) THEN " " ELSE s[kept[k]]]

\* platform.ts clean
clean(s) == TrimChars(Collapse(s))

RECURSIVE DedupeFrom(_, _, _)
\* Array.from(new Set(a)): the first occurrence of each value, in order
DedupeFrom(a, i, acc) ==
    IF i > Len(a) THEN acc
    ELSE DedupeFrom(a, i + 1,
                    IF \E k \in 1..Len(acc) : acc[k] = a[i] THEN acc
                    ELSE Append(acc, a[i]))

\* uniq keeping the entries as they are: no clean before the Set
uniq_NoClean(arr) ==
    DedupeFrom(SelectSeq(arr, LAMBDA x : x # << >>), 1, << >>)

\* platform.ts uniq
uniq(arr) ==
    DedupeFrom(SelectSeq([i \in 1..Len(arr) |-> clean(arr[i])], LAMBDA x : x # << >>),
               1, << >>)

\* text.replace(/\n+/g, " "): one space where a run of line breaks starts
NewlinesToSpace(s) ==
    LET kept == SelectSeq(Positions(Len(s)),
                          LAMBDA i : s[i] # "\n" \/ i = 1 \/ s[i - 1] # "\n")
    IN  [k \in 1..Len(kept) |-> IF s[kept[k]] = "\n" THEN " " ELSE s[kept[k]]]

\* /(?<=[.!?])\s+|(?:\s*[-–•]\s+)/ tried at position q: the position after
\* the match, 0 when there is none
SeparatorEnd(s, q) ==
    IF q > 1 /\ q <= Len(s) /\ s[q - 1] \in {".", "!", "?"} /\ IsSpace(s[q])
    THEN SkipWs(s, q)
    ELSE LET b == SkipWs(s, q)
         IN  IF b + 1 <= Len(s) /\ s[b] = "-" /\ IsSpace(s[b + 1])
             THEN SkipWs(s, b + 1)
             ELSE 0

\* the smallest member of a non-empty set of positions
First(S) == CHOOSE k \in S : \A j \in S : k <= j

RECURSIVE SplitFrom(_, _)
\* String.prototype.split(separator) from position p, where a piece begins:
\* the piece ends at the first position from p on where the separator
\* matches
SplitFrom(s, p) ==
    LET found == { q \in p..Len(s) : SeparatorEnd(s, q) # 0 }
    IN  IF found = {} THEN <<SubSeq(s, p, Len(s))>>
        ELSE <<SubSeq(s, p, First(found) - 1)>>
                 \o SplitFrom(s, SeparatorEnd(s, First(found)))

\* platform.ts splitSentences
splitSentences(text) ==
    LET pieces == SplitFrom(NewlinesToSpace(text), 1)
    IN  SelectSeq([i \in 1..Len(pieces) |-> clean(pieces[i])],
                  LAMBDA x : Len(x) >= MinSentence)

\* /\b(w1|w2|...)\b/i.test(s)
HasWord(s, words) ==
    \E i \in 1..Len(s) : \E w \in words :
        /\ i + Len(w) - 1 <= Len(s)
        /\ ToLower(SubSeq(s, i, i + Len(w) - 1)) = w
        /\ WordBoundary(s, i)
        /\ WordBoundary(s, i + Len(w))

StepVerbs ==
    { <<"a", "d", "d">>, <<"m", "i", "x">>, <<"s", "t", "i", "r">>,
      <<"w", "h", "i", "s", "k">>, <<"c", "o", "o", "k">>,
      <<"b", "a", "k", "e">>, <<"f", "r", "y">>, <<"s", "a", "u", "t", "e">>,
      <<"b", "o", "i", "l">>, <<"s", "i", "m", "m", "e", "r">>,
      <<"c", "h", "o", "p">>, <<"s", "l", "i", "c", "e">>,
      <<"m", "i", "n", "c", "e">>, <<"c", "o", "m", "b", "i", "n", "e">>,
      <<"b", "l", "e", "n", "d">>, <<"s", "e", "r", "v", "e">>,
      <<"f", "o", "l", "d">>, <<"p", "o", "u", "r">>,
      <<"s", "e", "a", "s", "o", "n">>, <<"h", "e", "a", "t">>,
      <<"p", "r", "e", "h", "e", "a", "t">> }

DigitChars == <<"0", "1", "2", "3", "4", "5", "6", "7", "8", "9">>

RECURSIVE NumberToString(_)
\* `${n}`
NumberToString(n) ==
    IF n < 10 THEN <<DigitChars[n + 1]>>
    ELSE NumberToString(n \div 10) \o <<DigitChars[(n % 10) + 1]>>

\* extractSteps numbering the sentences before it removes the duplicates:
\* a sentence keeps the ordinal of its place in the capped list
extractSteps_NumberFirst(text) ==
    LET sentences == splitSentences(text)
        keep == SelectSeq(sentences, LAMBDA x : HasWord(x, StepVerbs))
        capped == Take(IF keep # << >> THEN keep ELSE sentences, StepCap)
        firsts == SelectSeq(Positions(Len(capped)),
                            LAMBDA i : /\ clean(capped[i]) # << >>
                                       /\ ~\E j \in 1..(i - 1) :
                                              clean(capped[j]) = clean(capped[i]))
    IN  [k \in 1..Len(firsts) |->
            NumberToString(firsts[k]) \o <<".", " ">> \o clean(capped[firsts[k]])]

\* extractSteps removing the duplicates before it cuts the list:
\* uniq(keep).slice(0, 18)
extractSteps_CapAfterUniq(text) ==
    LET sentences == splitSentences(text)
        keep == SelectSeq(sentences, LAMBDA x : HasWord(x, StepVerbs))
        listed == Take(uniq(IF keep # << >> THEN keep ELSE sentences), StepCap)
    IN  [i \in 1..Len(listed) |-> NumberToString(i) \o <<".", " ">> \o listed[i]]

\* platform.ts extractSteps
extractSteps(text) ==
    LET sentences == splitSentences(text)
        keep == SelectSeq(sentences, LAMBDA x : HasWord(x, StepVerbs))
        listed == uniq(Take(IF keep # << >> THEN keep ELSE sentences, StepCap))
    IN  [i \in 1..Len(listed) |-> NumberToString(i) \o <<".", " ">> \o listed[i]]

\* the position of the first line break at or after i, Len(s) + 1 when none
LineEnd(s, i) ==
    LET nl == { k \in i..Len(s) : s[k] = "\n" }
    IN  IF nl = {} THEN Len(s) + 1 ELSE CHOOSE k \in nl : \A j \in nl : k <= j

\* the largest member of a non-empty set of positions
Last(S) == CHOOSE k \in S : \A j \in S : j <= k

\* \s*(.+) tried at position a: the group, << >> when it cannot match.
\* When only whitespace is left, \s* gives back as little as lets (.+) match.
TitleCapture(s, a) ==
    LET b == SkipWs(s, a)
        ks == { k \in a..Len(s) : s[k] # "\n" }
    IN  IF b <= Len(s) THEN SubSeq(s, b, LineEnd(s, b) - 1)
        ELSE IF ks = {} THEN << >>
        ELSE <<s[Last(ks)]>>

TitleWord == <<"t", "i", "t", "l", "e", ":">>

\* fullText.match(/TITLE:\s*(.+)/i)?.[1], << >> when there is no match
TitleMatch(s) ==
    LET starts == { i \in 1..(Len(s) - Len(TitleWord) + 1) :
                      /\ ToLower(SubSeq(s, i, i + Len(TitleWord) - 1)) = TitleWord
                      /\ TitleCapture(s, i + Len(TitleWord)) # << >> }
    IN  IF starts = {} THEN << >>
        ELSE TitleCapture(s, (CHOOSE i \in starts : \A j \in starts : i <= j)
                                 + Len(TitleWord))

SourceWord == <<"s", "o", "u", "r", "c", "e", " ", "t", "e", "x", "t", ":">>

\* t.replace(/^SOURCE TEXT:\s*/i, "")
StripSourceLabel(t) ==
    IF Len(t) >= Len(SourceWord) /\ ToLower(SubSeq(t, 1, Len(SourceWord))) = SourceWord
    THEN SubSeq(t, SkipWs(t, Len(SourceWord) + 1), Len(t))
    ELSE t

\* platform.ts guessTitle
guessTitle(fullText, fallback) ==
    LET m == TitleMatch(fullText)
        sentences == splitSentences(fullText)
        first == IF sentences = << >> THEN << >> ELSE Take(sentences[1], TitleCap)
    IN  IF m # << >> THEN Take(clean(m), TitleCap)
        ELSE StripSourceLabel(IF first # << >> THEN first ELSE fallback)

RECURSIVE SkipColonNewline(_, _)
\* [:\n]+ from position i
SkipColonNewline(s, i) ==
    IF i <= Len(s) /\ s[i] \in {":", "\n"} THEN SkipColonNewline(s, i + 1) ELSE i

\* \s*[:\n]+ tried at position a: where the group starts, 0 when it cannot
\* match.  \s* gives back the line breaks it took when no colon follows.
SectionFrom(s, a) ==
    LET b == SkipWs(s, a)
        ks == { k \in a..(b - 1) : s[k] = "\n" }
    IN  IF b <= Len(s) /\ s[b] = ":" THEN SkipColonNewline(s, b)
        ELSE IF ks = {} THEN 0
        ELSE SkipColonNewline(s, Last(ks))

IngredientWord == <<"i", "n", "g", "r", "e", "d", "i", "e", "n", "t">>

\* ingredients?\s*[:\n]+ tried at position i: where the group starts, or 0
SectionAt(s, i) ==
    LET a == i + Len(IngredientWord)
    IN  IF i + Len(IngredientWord) - 1 > Len(s)
           \/ ToLower(SubSeq(s, i, i + Len(IngredientWord) - 1)) # IngredientWord
        THEN 0
        ELSE IF a <= Len(s) /\ Lower(s[a]) = "s" /\ SectionFrom(s, a + 1) # 0
        THEN SectionFrom(s, a + 1)
        ELSE SectionFrom(s, a)

\* text.match(/ingredients?\s*[:\n]+([\s\S]{0,3000})/i)?.[1] ?? ""
IngredientsSection(s) ==
    LET starts == { i \in 1..Len(s) : SectionAt(s, i) # 0 }
    IN  IF starts = {} THEN << >>
        ELSE LET g == SectionAt(s, CHOOSE i \in starts : \A j \in starts : i <= j)
             IN  Take(SubSeq(s, g, Len(s)), SectionCap)

RECURSIVE SplitLines(_, _)
\* s.split("\n") from position p
SplitLines(s, p) ==
    LET e == LineEnd(s, p)
    IN  IF e > Len(s) THEN <<SubSeq(s, p, Len(s))>>
        ELSE <<SubSeq(s, p, e - 1)>> \o SplitLines(s, e + 1)

\* s contains w, whatever the case, with a word boundary before and/or
\* after it as asked
Contains(s, w, before, after) ==
    \E i \in 1..(Len(s) - Len(w) + 1) :
        /\ ToLower(SubSeq(s, i, i + Len(w) - 1)) = w
        /\ before => WordBoundary(s, i)
        /\ after => WordBoundary(s, i + Len(w))

HeadingWords ==
    { <<"s", "t", "e", "p">>, <<"s", "t", "e", "p", "s">>,
      <<"m", "e", "t", "h", "o", "d">>,
      <<"d", "i", "r", "e", "c", "t", "i", "o", "n", "s">>,
      <<"i", "n", "s", "t", "r", "u", "c", "t", "i", "o", "n", "s">>,
      <<"n", "o", "t", "e">>, <<"n", "o", "t", "e", "s">> }

\* likelyIngredientLine: no heading word first, none of \bsubscribe, like,
\* follow\b anywhere, and a letter somewhere
likelyIngredientLine(x) ==
    /\ ~\E w \in HeadingWords :
            /\ Len(w) <= Len(x)
            /\ ToLower(SubSeq(x, 1, Len(w))) = w
            /\ WordBoundary(x, Len(w) + 1)
    /\ ~Contains(x, <<"s", "u", "b", "s", "c", "r", "i", "b", "e">>, TRUE, FALSE)
    /\ ~Contains(x, <<"l", "i", "k", "e">>, FALSE, FALSE)
    /\ ~Contains(x, <<"f", "o", "l", "l", "o", "w">>, FALSE, TRUE)
    /\ \E i \in 1..Len(x) : x[i] \in LetterSet

RECURSIVE Flatten(_)
\* the concatenation of a sequence of sequences
Flatten(ss) == IF ss = << >> THEN << >> ELSE Head(ss) \o Flatten(Tail(ss))

\* A pattern tried at a position yields the positions it can end at, in the
\* order the regular expression engine tries them.  Then follows each of
\* them by the next pattern.
Then(ends, F(_)) == Flatten([k \in 1..Len(ends) |-> F(ends[k])])

RECURSIVE SkipDigits(_, _)
SkipDigits(s, i) == IF i <= Len(s) /\ s[i] \in Digits THEN SkipDigits(s, i + 1) ELSE i

\* \d+ at i: the longest run first
DigitRuns(s, i) == LET e == SkipDigits(s, i) IN [k \in 1..(e - i) |-> e - k + 1]

\* \s* at i: the longest run first, the empty one last
WsStar(s, i) == LET e == SkipWs(s, i) IN [k \in 1..(e - i + 1) |-> e - k + 1]

\* \s+ at i
WsPlus(s, i) == LET e == SkipWs(s, i) IN [k \in 1..(e - i) |-> e - k + 1]

\* (?:\d+(?:\.\d+)?|\d+\/\d+) at i
Qty(s, i) ==
    Then(DigitRuns(s, i),
         LAMBDA e : (IF e <= Len(s) /\ s[e] = "." THEN DigitRuns(s, e + 1) ELSE << >>)
                        \o <<e>>)
        \o Then(DigitRuns(s, i),
                LAMBDA e : IF e <= Len(s) /\ s[e] = "/" THEN DigitRuns(s, e + 1)
                           ELSE << >>)

\* \s*QTY\s* at i
QtyBetweenSpaces(s, i) ==
    Then(Then(WsStar(s, i), LAMBDA q : Qty(s, q)), LAMBDA q : WsStar(s, q))

\* (?:-\s*QTY\s*)? at p
RangePart(s, p) ==
    (IF p <= Len(s) /\ s[p] = "-" THEN QtyBetweenSpaces(s, p + 1) ELSE << >>) \o <<p>>

\* (?:\s*(?:x|×)\s*QTY\s*)? at p
TimesPart(s, p) ==
    Then(WsStar(s, p),
         LAMBDA q : IF q <= Len(s) /\ Lower(s[q]) = "x" THEN QtyBetweenSpaces(s, q + 1)
                    ELSE << >>)
        \o <<p>>

Units ==
    << <<"t", "s", "p">>, <<"t", "b", "s", "p">>,
      <<"t", "e", "a", "s", "p", "o", "o", "n">>,
      <<"t", "a", "b", "l", "e", "s", "p", "o", "o", "n">>,
      <<"c", "u", "p">>, <<"c", "u", "p", "s">>, <<"o", "z">>,
      <<"o", "u", "n", "c", "e">>, <<"o", "u", "n", "c", "e", "s">>,
      <<"l", "b">>, <<"p", "o", "u", "n", "d">>,
      <<"p", "o", "u", "n", "d", "s">>, <<"g">>, <<"g", "r", "a", "m">>,
      <<"g", "r", "a", "m", "s">>, <<"k", "g">>, <<"m", "l">>, <<"l">>,
      <<"l", "i", "t", "e", "r">>, <<"l", "i", "t", "r", "e">>,
      <<"c", "l", "o", "v", "e">>, <<"c", "l", "o", "v", "e", "s">>,
      <<"p", "i", "n", "c", "h">>, <<"d", "a", "s", "h">>,
      <<"s", "l", "i", "c", "e">>, <<"s", "l", "i", "c", "e", "s">> >>

\* (?:\s*UNITS)? at p: the units in the order of the alternation
UnitPart(s, p) ==
    Then(WsStar(s, p),
         LAMBDA q :
            LET fit == SelectSeq(Positions(Len(Units)),
                                 LAMBDA k : /\ q + Len(Units[k]) - 1 <= Len(s)
                                            /\ ToLower(SubSeq(s, q, q + Len(Units[k]) - 1))
                                                   = Units[k])
            IN  [k \in 1..Len(fit) |-> q + Len(Units[fit[k]])])
        \o <<p>>

\* [^.!?\n]{0,60} at t: as many as there are, up to the cap
TailEnd(s, t) ==
    LET stops == { k \in t..Len(s) : s[k] \in {".", "!", "?", "\n"} }
        e == IF stops = {} THEN Len(s) + 1 ELSE CHOOSE k \in stops : \A j \in stops : k <= j
    IN  IF e - t > TailCap THEN t + TailCap ELSE e

\* \s+[a-z][^.!?\n]{0,60} at p
NamePart(s, p) ==
    Then(WsPlus(s, p),
         LAMBDA q : IF q <= Len(s) /\ s[q] \in LetterSet THEN <<TailEnd(s, q + 1)>>
                    ELSE << >>)

\* the quantity pattern tried at i: the position after the match the engine
\* settles on, 0 when there is none
PatternAt(s, i) ==
    IF ~WordBoundary(s, i) THEN 0
    ELSE LET ends ==
                 Then(Then(Then(Then(Then(Qty(s, i),
                                          LAMBDA q : WsStar(s, q)),
                                     LAMBDA q : RangePart(s, q)),
                                LAMBDA q : TimesPart(s, q)),
                           LAMBDA q : UnitPart(s, q)),
                      LAMBDA q : NamePart(s, q))
         IN  IF ends = << >> THEN 0 ELSE ends[1]

RECURSIVE MatchAll(_, _)
\* text.match(pattern) with the g flag, from position i: the next match
\* starts at the first position from i on where the pattern matches
MatchAll(s, i) ==
    LET found == { k \in i..Len(s) : PatternAt(s, k) # 0 }
    IN  IF found = {} THEN << >>
        ELSE <<SubSeq(s, First(found), PatternAt(s, First(found)) - 1)>>
                 \o MatchAll(s, PatternAt(s, First(found)))

TimeWords ==
    { <<"m", "i", "n", "u", "t", "e">>,
      <<"m", "i", "n", "u", "t", "e", "s">>,
      <<"s", "e", "c", "o", "n", "d">>,
      <<"s", "e", "c", "o", "n", "d", "s">>,
      <<"d", "e", "g", "r", "e", "e">>,
      <<"d", "e", "g", "r", "e", "e", "s">> }

\* platform.ts extractIngredientCandidates
extractIngredientCandidates(text) ==
    LET lines == SplitLines(IngredientsSection(text), 1)
        trimmed == [i \in 1..Len(lines) |-> TrimChars(lines[i])]
        sectionLines == SelectSeq(trimmed, LAMBDA x : x # << >> /\ Len(x) < LineCap)
        fromSection == Take(SelectSeq(sectionLines, likelyIngredientLine), IngredientCap)
        hits == MatchAll(text, 1)
        filtered == SelectSeq(hits, LAMBDA h : ~HasWord(h, TimeWords))
    IN  Take(uniq(fromSection \o filtered), IngredientCap)

FallbackTitle == <<"R", "e", "c", "i", "p", "e">>

\* extractRecipe returning its list of notes as it is: notes: notes
extractRecipe_NotesAlways(fullText, opts) ==
    LET ingredients == extractIngredientCandidates(fullText)
        listed == extractSteps(fullText)
        notes ==
            (IF ingredients = << >> THEN <<"No clear ingredient list found">> ELSE << >>)
                \o (IF listed = << >> THEN <<"No clear steps found">> ELSE << >>)
    IN  [ title |-> IF "sourceTitle" \in DOMAIN opts /\ opts.sourceTitle # << >>
                    THEN opts.sourceTitle
                    ELSE guessTitle(fullText, FallbackTitle),
          ingredients |-> ingredients,
          steps |-> listed,
          notes |-> notes ]
            @@ Opt("sourceUrl", "sourceUrl" \in DOMAIN opts,
                   IF "sourceUrl" \in DOMAIN opts THEN opts.sourceUrl ELSE "")

\* platform.ts extractRecipe (maybeUseLLM returns null)
extractRecipe(fullText, opts) ==
    LET ingredients == extractIngredientCandidates(fullText)
        listed == extractSteps(fullText)
        notes ==
            (IF ingredients = << >> THEN <<"No clear ingredient list found">> ELSE << >>)
                \o (IF listed = << >> THEN <<"No clear steps found">> ELSE << >>)
    IN  [ title |-> IF "sourceTitle" \in DOMAIN opts /\ opts.sourceTitle # << >>
                    THEN opts.sourceTitle
                    ELSE guessTitle(fullText, FallbackTitle),
          ingredients |-> ingredients,
          steps |-> listed ]
            @@ Opt("notes", notes # << >>, notes)
            @@ Opt("sourceUrl", "sourceUrl" \in DOMAIN opts,
                   IF "sourceUrl" \in DOMAIN opts THEN opts.sourceUrl ELSE "")

(***************************************************************************)
(* The library functions on their own: one call, its arguments drawn from  *)
(* bounded sets.  No request is being served.                              *)
(***************************************************************************)
NoRequest == ver = "V1" /\ tver = "T1" /\ Idle /\ handlers = NoHandlers /\ tmpdirs = {}

\* a call of fetchSourceText with the network outcomes it meets
ResolveInputs ==
    UNION { { [fn |-> "fetchSourceText", url |-> u, env |-> e] :
                e \in ResolverEnvs(u, minChars) \cup ResolverEnvs(u, MIN_TEXT) } :
            u \in Urls }

InitResolve ==
    /\ NoRequest
    /\ input \in ResolveInputs
    /\ output = NoCall
    /\ earlier = NoCall

\* await fetchSourceText(url)
ResolveCall ==
    /\ input.fn = "fetchSourceText"
    /\ output = NoCall
    /\ output' = [fn |-> "fetchSourceText"] @@ fetchSourceText(input.url, input.env)
    /\ UNCHANGED << input, earlier, handlers, tmpdirs >>
    /\ UNCHANGED requestVars

NextResolve == ResolveCall

SpecResolve == InitResolve /\ [][NextResolve]_vars

InitScan ==
    /\ NoRequest
    /\ input \in ScanInputs
    /\ output = NoCall
    /\ earlier = NoCall

\* extractJsonObject(html, marker)
ScanCall ==
    /\ input.fn = "extractJsonObject"
    /\ output = NoCall
    /\ output' = [fn |-> "extractJsonObject",
                  value |-> extractJsonObject(input.html, input.marker)]
    /\ UNCHANGED << input, earlier, handlers, tmpdirs >>
    /\ UNCHANGED requestVars

NextScan == ScanCall

SpecScan == InitScan /\ [][NextScan]_vars

\* the values a field of the source may have: undefined, "", blank, text
\* with and without surrounding whitespace
OptionalFields(tag) == { Undefined, EmptyStr, Mk(tag, 0, 5, 0) }

TextFields(tag) ==
    { EmptyStr, Mk(tag, 0, 5, 0) }
        \cup { Mk(tag, p, 0, 0) : p \in 1..MaxPad }
        \cup { Mk(tag, p, 5, p) : p \in 1..MaxPad }

\* a source object and a pasted text to be combined
CombineInputs ==
    { [fn |-> "combine",
       src |-> [platform |-> "youtube", text |-> x]
                   @@ Opt("title", t # Undefined, t) @@ Opt("author", a # Undefined, a),
       pastedText |-> p] :
         t \in OptionalFields("title"), a \in OptionalFields("author"),
         x \in TextFields("native"), p \in TextFields("pasted") }

InitCombine ==
    /\ NoRequest
    /\ input \in CombineInputs
    /\ output = NoCall
    /\ earlier = NoCall

\* const combinedText = [...].filter(Boolean).join("\n\n")
CombineCall ==
    /\ input.fn = "combine"
    /\ output = NoCall
    /\ output' = [fn |-> "combine", text |-> CombineText(input.src, input.pastedText)]
    /\ UNCHANGED << input, earlier, handlers, tmpdirs >>
    /\ UNCHANGED requestVars

NextCombine == CombineCall

SpecCombine == InitCombine /\ [][NextCombine]_vars

(***************************************************************************)
(* The extractor on its own: extractRecipe called with a corpus put        *)
(* together from at most MaxFrags pieces of text, or with the corpus of    *)
(* the garlic butter shrimp video, and with the hints the handler passes.  *)
(***************************************************************************)
FlourSentence ==
    <<"A", "d", "d", " ", "2", " ", "c", "u", "p", "s", " ", "f", "l", "o",
      "u", "r", ".", " ">>

\* the sentence twice, the second time with more whitespace
FlourTwice ==
    <<"A", "d", "d", " ", "2", " ", "c", "u", "p", "s", " ", "f", "l", "o",
      "u", "r", ".", " ", "A", "d", "d", " ", " ", "2", " ", "c", "u", "p",
      "s", " ", "f", "l", "o", "u", "r", ".", "\n">>

MixSentence == <<"M", "i", "x", " ", "w", "e", "l", "l", "!", " ">>

BakeSentence ==
    <<"B", "a", "k", "e", " ", "f", "o", "r", " ", "1", "0", " ", "m", "i",
      "n", "u", "t", "e", "s", ".", " ">>

IngredientsBlock ==
    <<"I", "n", "g", "r", "e", "d", "i", "e", "n", "t", "s", ":", "\n", "2",
      " ", "e", "g", "g", "s", "\n", " ", "2", " ", " ", "e", "g", "g", "s",
      "\n", "s", "a", "l", "t", "\n">>

DashLine ==
    <<"-", " ", "1", "/", "2", " ", "t", "s", "p", " ", "s", "a", "l", "t",
      " ">>

ShortWord == <<"o", "k", " ">>

TitleLine == <<"T", "I", "T", "L", "E", ":", " ", "S", "o", "u", "p", "\n", "\n">>

Fragments ==
    << FlourSentence, FlourTwice, MixSentence, BakeSentence,
       IngredientsBlock, DashLine, ShortWord, TitleLine >>

ShrimpCorpus ==
    <<"T", "I", "T", "L", "E", ":", " ", "G", "a", "r", "l", "i", "c", " ",
      "B", "u", "t", "t", "e", "r", " ", "S", "h", "r", "i", "m", "p", "\n",
      "\n", "S", "O", "U", "R", "C", "E", " ", "T", "E", "X", "T", ":",
      "\n", "A", "d", "d", " ", "2", " ", "t", "b", "s", "p", " ", "b", "u",
      "t", "t", "e", "r", " ", "t", "o", " ", "a", " ", "h", "o", "t", " ",
      "p", "a", "n", ".", " ", "A", "d", "d", " ", "1", " ", "l", "b", " ",
      "s", "h", "r", "i", "m", "p", " ", "a", "n", "d", " ", "c", "o", "o",
      "k", " ", "f", "o", "r", " ", "3", " ", "m", "i", "n", "u", "t", "e",
      "s", ".", " ", "S", "e", "a", "s", "o", "n", " ", "w", "i", "t", "h",
      " ", "s", "a", "l", "t", ".">>

PieTitle == <<"P", "i", "e">>

RECURSIVE Corpora(_)
\* the texts made of at most n fragments
Corpora(n) ==
    IF n = 0 THEN { << >> }
    ELSE Corpora(n - 1)
             \cup { c \o Fragments[k] : c \in Corpora(n - 1), k \in 1..Len(Fragments) }

\* opts as the handler passes them: sourceUrl always, sourceTitle when the
\* resolver found a title
Hints == { [sourceUrl |-> "url"], [sourceUrl |-> "url", sourceTitle |-> PieTitle] }

ExtractInputs ==
    { [fn |-> "extractRecipe", fullText |-> c, opts |-> h] :
         c \in Corpora(MaxFrags) \cup {ShrimpCorpus}, h \in Hints }

InitExtract ==
    /\ NoRequest
    /\ input \in ExtractInputs
    /\ output = NoCall
    /\ earlier = NoCall

\* const recipe = await extractRecipe(combinedText, {sourceUrl, sourceTitle})
ExtractCall ==
    /\ input.fn = "extractRecipe"
    /\ output = NoCall
    /\ output' = [fn |-> "extractRecipe",
                  recipe |-> extractRecipe(input.fullText, input.opts)]
    /\ UNCHANGED << input, earlier, handlers, tmpdirs >>
    /\ UNCHANGED requestVars

NextExtract == ExtractCall

SpecExtract == InitExtract /\ [][NextExtract]_vars

(***************************************************************************)
(* The extractor on long corpora: more sentences than extractSteps keeps    *)
(* and more ingredient lines than extractIngredientCandidates keeps.       *)
(***************************************************************************)
\* how many entries beyond a cap the long corpora go
MaxOver == 2

RECURSIVE Numbered(_, _, _)
\* before 1 after before 2 after ... before n after
Numbered(before, after, n) ==
    IF n = 0 THEN << >>
    ELSE Numbered(before, after, n - 1) \o before \o NumberToString(n) \o after

RECURSIVE Copies(_, _)
\* n copies of piece
Copies(piece, n) == IF n = 0 THEN << >> ELSE Copies(piece, n - 1) \o piece

StirPrefix == <<"S", "t", "i", "r", " ">>

SentenceEnd == <<".", " ">>

MixIt == <<"M", "i", "x", " ", "i", "t", ".", " ">>

BakeIt == <<"B", "a", "k", "e", " ", "i", "t", ".", " ">>

GramsOil == <<" ", "g", " ", "o", "i", "l", "\n">>

IngredientsHeading == <<"I", "n", "g", "r", "e", "d", "i", "e", "n", "t", "s", ":", "\n">>

\* n different step sentences: "Stir 1. Stir 2. ..."
DistinctSentences(n) == Numbered(StirPrefix, SentenceEnd, n)

\* n times the same step sentence, then another one
SameThenOther(n) == Copies(MixIt, n) \o BakeIt

\* n different ingredient lines: "1 g oil", "2 g oil", ...
IngredientLines(n) == Numbered(<< >>, GramsOil, n)

\* corpora with up to MaxOver sentences more than the cap on the steps
LongStepCorpora ==
    { DistinctSentences(n) : n \in 0..(StepCap + MaxOver) }
        \cup { SameThenOther(n) : n \in 0..(StepCap + MaxOver) }

\* corpora with up to MaxOver lines more than the cap on the ingredients,
\* under a heading "Ingredients:" and without one
LongIngredientCorpora ==
    { IngredientLines(n) : n \in (IngredientCap + 1)..(IngredientCap + MaxOver) }
        \cup { IngredientsHeading \o IngredientLines(n) :
                  n \in (IngredientCap + 1)..(IngredientCap + MaxOver) }

CapInputs ==
    { [fn |-> "extractRecipe", fullText |-> c, opts |-> h] :
         c \in LongStepCorpora, h \in Hints }
        \cup { [fn |-> "extractRecipe", fullText |-> c, opts |-> [sourceUrl |-> "url"]] :
                  c \in LongIngredientCorpora }

InitCaps ==
    /\ NoRequest
    /\ input \in CapInputs
    /\ output = NoCall
    /\ earlier = NoCall

NextCaps == ExtractCall

SpecCaps == InitCaps /\ [][NextCaps]_vars

(***************************************************************************)
(* The extractor called again and again by one process: after a call has   *)
(* returned, the next call is made with any of the corpora; earlier keeps  *)
(* one of the calls that returned, whichever.                              *)
(***************************************************************************)
RepeatInputs ==
    { [fn |-> "extractRecipe", fullText |-> c, opts |-> h] :
         c \in { << >>, ShrimpCorpus, FlourTwice \o MixSentence,
                 IngredientsBlock \o BakeSentence },
         h \in Hints }

InitRepeat ==
    /\ NoRequest
    /\ input \in RepeatInputs
    /\ output = NoCall
    /\ earlier = NoCall

\* a list kept at module level and never emptied: the steps of a call come
\* after those of the call remembered
RepeatCall_SharedList ==
    /\ input.fn = "extractRecipe"
    /\ output = NoCall
    /\ output' = [fn |-> "extractRecipe",
                  recipe |->
                      [extractRecipe(input.fullText, input.opts) EXCEPT
                          !.steps = (IF earlier = NoCall THEN << >>
                                     ELSE earlier.output.recipe.steps) \o @]]
    /\ UNCHANGED << input, earlier, handlers, tmpdirs >>
    /\ UNCHANGED requestVars

\* extractRecipe reads its two arguments and nothing else: every regular
\* expression is built by the call that uses it
RepeatCall ==
    /\ input.fn = "extractRecipe"
    /\ output = NoCall
    /\ output' = [fn |-> "extractRecipe",
                  recipe |-> extractRecipe(input.fullText, input.opts)]
    /\ UNCHANGED << input, earlier, handlers, tmpdirs >>
    /\ UNCHANGED requestVars

\* the caller goes on to its next call, remembering the one that returned
\* or the one it remembered before
NextInput ==
    /\ output # NoCall
    /\ input' \in RepeatInputs
    /\ output' = NoCall
    /\ earlier' \in {[fn |-> "call", input |-> input, output |-> output]}
                        \cup (IF earlier = NoCall THEN {} ELSE {earlier})
    /\ UNCHANGED << handlers, tmpdirs >>
    /\ UNCHANGED requestVars

NextRepeat == RepeatCall \/ NextInput

SpecRepeat == InitRepeat /\ [][NextRepeat]_vars

(***************************************************************************)
(* Two requests served side by side by the revision with in-process        *)
(* transcription (route.ts POST, transcribe.ts transcribeUrl).  Each       *)
(* invocation of POST has its own locals (steps, source, usedWhisper), and *)
(* its transcribeUrl its own tmp; the invocations interleave at their      *)
(* awaits and meet only in the file system.  An event carries, beside its  *)
(* step, the invocation whose push appended it.                            *)
(***************************************************************************)
Requests == {"r1", "r2"}

\* the names mkdtemp can give to a directory
DirNames == {"cookclip-a", "cookclip-b"}

\* the locals of an invocation that has not run yet
FreshHandler ==
    [ pc |-> "start", steps |-> << >>, source |-> [none |-> TRUE], usedWhisper |-> FALSE,
      tpc |-> "idle", tmp |-> "none", held |-> "none", response |-> NotSent ]

\* steps.push({t, step, msg, data}) by the push closure of invocation r
PushBy(r, s, names) == s \o [i \in 1..Len(names) |-> [step |-> names[i], by |-> r]]

InitTwo ==
    /\ ver = "V1" /\ tver = "T1" /\ Idle
    /\ input = NoCall
    /\ output = NoCall
    /\ earlier = NoCall
    /\ handlers = [r \in Requests |-> FreshHandler]
    /\ tmpdirs = {}

\* the body is read and validated; fetchSourceText is called
R_Parse(r) ==
    LET h == handlers[r]
        s1 == PushBy(r, h.steps, <<"extract.start">>)
    IN  /\ h.pc = "start"
        /\ \E bodyOk \in BOOLEAN :
            handlers' =
                [handlers EXCEPT ![r] =
                    IF bodyOk
                    THEN [h EXCEPT !.steps = PushBy(r, s1, <<"source.fetch.start">>),
                                   !.pc = "resolving"]
                    ELSE LET s2 == PushBy(r, s1, <<"extract.error">>)
                         IN  [h EXCEPT !.steps = s2, !.pc = "failed",
                                       !.response = [ok |-> FALSE, steps |-> s2]]]
        /\ UNCHANGED << tmpdirs, input, output, earlier >>
        /\ UNCHANGED requestVars

\* fetchSourceText returns a new object; transcribeUrl is called when its
\* text is too short
R_Resolve(r) ==
    LET h == handlers[r]
    IN  /\ h.pc = "resolving"
        /\ \E text \in {"", "captions"} :
            LET s1 == PushBy(r, h.steps, <<"source.fetch.done">>)
            IN  handlers' =
                    [handlers EXCEPT ![r] =
                        IF text = ""
                        THEN [h EXCEPT !.source = [platform |-> "youtube", text |-> text],
                                       !.steps = PushBy(r, s1, <<"transcribe.start">>),
                                       !.pc = "transcribing", !.tpc = "mkdtemp"]
                        ELSE [h EXCEPT !.source = [platform |-> "youtube", text |-> text],
                                       !.steps = PushBy(r, s1, <<"transcribe.skip">>),
                                       !.pc = "combining"]]
        /\ UNCHANGED << tmpdirs, input, output, earlier >>
        /\ UNCHANGED requestVars

\* a fixed directory in place of mkdtemp: mkdir(join(tmpdir(), "cookclip"))
\* with recursive: true
R_Mkdtemp_FixedName(r) ==
    LET h == handlers[r]
    IN  /\ h.tpc = "mkdtemp"
        /\ handlers' =
               [handlers EXCEPT ![r] =
                   [h EXCEPT !.tmp = "cookclip-a",
                             !.steps = PushBy(r, h.steps,
                                              <<"transcribe.dl.start", "exec.start">>),
                             !.tpc = "download"]]
        /\ tmpdirs' = tmpdirs \cup {"cookclip-a"}
        /\ UNCHANGED << input, output, earlier >>
        /\ UNCHANGED requestVars

\* const tmp = await mkdtemp(join(tmpdir(), "cookclip-")): a directory that
\* did not exist is made, or mkdtemp fails; then yt-dlp is started
R_Mkdtemp(r) ==
    LET h == handlers[r]
    IN  /\ h.tpc = "mkdtemp"
        /\ \/ \E d \in DirNames \ tmpdirs :
                /\ handlers' =
                       [handlers EXCEPT ![r] =
                           [h EXCEPT !.tmp = d,
                                     !.steps = PushBy(r, h.steps,
                                                      <<"transcribe.dl.start", "exec.start">>),
                                     !.tpc = "download"]]
                /\ tmpdirs' = tmpdirs \cup {d}
           \/ /\ handlers' = [handlers EXCEPT ![r] = [h EXCEPT !.held = "threw",
                                                               !.tpc = "returned"]]
              /\ UNCHANGED tmpdirs
        /\ UNCHANGED << input, output, earlier >>
        /\ UNCHANGED requestVars

\* yt-dlp, writing into tmp, ends; on code 0 the engine is started
R_Download(r) ==
    LET h == handlers[r]
    IN  /\ h.tpc = "download"
        /\ \E code0 \in BOOLEAN :
            handlers' =
                [handlers EXCEPT ![r] =
                    IF code0
                    THEN [h EXCEPT !.steps = PushBy(r, h.steps,
                                                <<"exec.done", "transcribe.whisper.start",
                                                  "execjson.start">>),
                                   !.tpc = "engine"]
                    ELSE [h EXCEPT !.steps = PushBy(r, h.steps, <<"exec.fail">>),
                                   !.held = "threw", !.tpc = "cleanup"]]
        /\ UNCHANGED << tmpdirs, input, output, earlier >>
        /\ UNCHANGED requestVars

\* the engine, reading tmp/audio.wav, ends
R_Engine(r) ==
    LET h == handlers[r]
    IN  /\ h.tpc = "engine"
        /\ \E code0 \in BOOLEAN :
            handlers' =
                [handlers EXCEPT ![r] =
                    IF code0
                    THEN [h EXCEPT !.steps = PushBy(r, h.steps,
                                                <<"execjson.done",
                                                  "transcribe.whisper.done">>),
                                   !.held = "ok", !.tpc = "cleanup"]
                    ELSE [h EXCEPT !.steps = PushBy(r, h.steps, <<"execjson.fail">>),
                                   !.held = "threw", !.tpc = "cleanup"]]
        /\ UNCHANGED << tmpdirs, input, output, earlier >>
        /\ UNCHANGED requestVars

\* finally { await rm(tmp, {recursive: true, force: true}).catch(() => {}) }
R_Cleanup(r) ==
    LET h == handlers[r]
    IN  /\ h.tpc = "cleanup"
        /\ handlers' = [handlers EXCEPT ![r] = [h EXCEPT !.tpc = "returned"]]
        /\ \E rmOk \in BOOLEAN : tmpdirs' = IF rmOk THEN tmpdirs \ {h.tmp} ELSE tmpdirs
        /\ UNCHANGED << input, output, earlier >>
        /\ UNCHANGED requestVars

\* transcribeUrl settled: source.text = tr.text, or the error is recorded
R_AfterTranscribe(r) ==
    LET h == handlers[r]
    IN  /\ h.pc = "transcribing" /\ h.tpc = "returned"
        /\ handlers' =
               [handlers EXCEPT ![r] =
                   IF h.held = "ok"
                   THEN [h EXCEPT !.source = [h.source EXCEPT !.text = "whisper"],
                                  !.usedWhisper = TRUE,
                                  !.steps = PushBy(r, h.steps, <<"transcribe.done">>),
                                  !.pc = "combining"]
                   ELSE [h EXCEPT !.steps = PushBy(r, h.steps, <<"transcribe.exception">>),
                                  !.pc = "combining"]]
        /\ UNCHANGED << tmpdirs, input, output, earlier >>
        /\ UNCHANGED requestVars

\* the corpus is built and gated; extractRecipe is called when it passes
R_Combine(r) ==
    LET h == handlers[r]
        s2 == PushBy(r, h.steps, <<"combine.start", "combine.done">>)
    IN  /\ h.pc = "combining"
        /\ handlers' =
               [handlers EXCEPT ![r] =
                   IF h.source.text = ""
                   THEN [h EXCEPT !.steps = s2, !.pc = "failed",
                                  !.response = [ok |-> FALSE, steps |-> s2,
                                                sourceUsed |-> h.source]]
                   ELSE [h EXCEPT !.steps = PushBy(r, s2, <<"recipe.extract.start">>),
                                  !.pc = "extracting"]]
        /\ UNCHANGED << tmpdirs, input, output, earlier >>
        /\ UNCHANGED requestVars

\* extractRecipe settles and the success response is sent
R_Extract(r) ==
    LET h == handlers[r]
        s1 == PushBy(r, h.steps, <<"recipe.extract.done">>)
    IN  /\ h.pc = "extracting"
        /\ handlers' =
               [handlers EXCEPT ![r] =
                   [h EXCEPT !.steps = s1, !.pc = "done",
                             !.response = [ok |-> TRUE, steps |-> s1,
                                           sourceUsed |-> h.source]]]
        /\ UNCHANGED << tmpdirs, input, output, earlier >>
        /\ UNCHANGED requestVars

NextTwo ==
    \E r \in Requests :
        \/ R_Parse(r)
        \/ R_Resolve(r)
        \/ R_Mkdtemp(r)
        \/ R_Download(r)
        \/ R_Engine(r)
        \/ R_Cleanup(r)
        \/ R_AfterTranscribe(r)
        \/ R_Combine(r)
        \/ R_Extract(r)

SpecTwo == InitTwo /\ [][NextTwo]_vars

(***************************************************************************)
(* Vocabulary of the properties.                                           *)
(***************************************************************************)
\* the acceptance threshold of the revision serving the request
AcceptThreshold == IF ver = "V1" THEN MIN_TEXT ELSE minChars

\* the transcription-trigger threshold of the revision serving the request
TriggerThreshold == IF ver = "V1" THEN MIN_TEXT ELSE minChars

\* the handler has been through the combine stage
PastCombine == pc \in {"extracting", "done"} \/ (pc = "failed" /\ exitPath = "return")

\* the step identifiers of the insufficient-text failure
NotEnoughSteps == {"combine.not_enough_text", "reject.notEnoughText"}

\* the response is the insufficient-text failure
IsNotEnough ==
    /\ Sent
    /\ ~response.ok
    /\ "step" \in DOMAIN response
    /\ response.step \in NotEnoughSteps

\* a request body that is not JSON, has an invalid url or a field of the
\* wrong type
Malformed(b) ==
    \/ ~b.json
    \/ ~b.urlValid
    \/ b.pastedType \notin {"string", "absent"}
    \/ b.debugType \notin {"boolean", "absent"}

\* the request asked for debug output
DebugAsked == body.json /\ body.debugType = "boolean" /\ body.debug

\* the hostname is one of YouTube's
YouTubeHost(u) == Includes(u.host, YOUTUBE_COM) \/ Includes(u.host, YOUTU_BE)

\* none of youtu.be/<id>, watch?v=<id>, shorts/<id>
NoVideoId(u) ==
    /\ YouTubeHost(u)
    /\ IF Includes(u.host, YOUTU_BE)
       THEN \A i \in 1..Len(u.path) : u.path[i] = ""
       ELSE /\ u.v = ""
            /\ ~\E i \in 1..(Len(u.path) - 1) :
                  u.path[i] = "shorts" /\ u.path[i + 1] # ""

UnknownPlatform(u) == ~YouTubeHost(u) /\ ~Includes(u.host, TIKTOK_COM)

\* the transcription attempt has been made and dealt with
AfterAttempt == calls.transcribe = 1 /\ pc # "transcribing"

\* the attempt yielded no usable text: the fetch or transcribeUrl failed, or
\* the text came back blank
AttemptFailedOrBlank ==
    \/ transport \in {"networkError", "htmlError"}
    \/ trOut.kind = "threw"
    \/ trOut.kind = "ok" /\ StrLen(Trim(trOut.text)) = 0

\* transcribeUrl has settled after its directory was made
TranscribeSettled == tpc = "returned" /\ Len(procs) >= 1

\* the subprocess proc has ended, and how
Ended(proc) == \E i \in 1..Len(exits) : exits[i].proc = proc

ExitOf(proc) == exits[CHOOSE i \in 1..Len(exits) : exits[i].proc = proc]

\* the engine exited with code 0 and printed something JSON.parse accepts
EngineParsed ==
    /\ Ended("python")
    /\ ExitOf("python").code = "zero"
    /\ ExitOf("python").stdout.kind \in {"null", "object"}

\* how many events of the trace have a step identifier in S
CountSteps(S) == Cardinality({ i \in 1..Len(steps) : steps[i].step \in S })

\* the values a missing language may default to
UnsetLanguage == {Undefined, Null, "unknown"}

(***************************************************************************)
(* C1: for every request that reaches the combine stage, recipe            *)
(* extraction runs if and only if the trimmed combined corpus is at least  *)
(* the acceptance threshold long; otherwise (threshold - 1 characters      *)
(* included) the request ends in the insufficient-text failure.            *)
(***************************************************************************)
C1_GateAtThreshold ==
    PastCombine =>
        /\ calls.extract = 1 <=> StrLen(Trim(combinedText)) >= AcceptThreshold
        /\ calls.extract = 0 <=> IsNotEnough
        /\ IsNotEnough <=> StrLen(Trim(combinedText)) < AcceptThreshold

\* a corpus of exactly the threshold length goes to extraction
C1_Witness ==
    /\ pc = "extracting"
    /\ StrLen(Trim(combinedText)) = AcceptThreshold
    /\ StrLen(combinedText) > AcceptThreshold

\* a corpus of exactly threshold - 1 characters is refused
C1_WitnessBelow ==
    /\ IsNotEnough
    /\ StrLen(Trim(combinedText)) = AcceptThreshold - 1

(***************************************************************************)
(* C2: a transcription failure is not fatal.  Whatever the attempt does,   *)
(* the handler goes on to the combine stage; when the attempt failed or    *)
(* returned blank text an error message is recorded and the source text    *)
(* is left alone; the catch block is never the outcome of a request that   *)
(* attempted transcription, and such a request fails only at the gate.     *)
(***************************************************************************)
C2_TranscriptionNotFatal ==
    AfterAttempt =>
        /\ pc \in {"combining", "extracting", "done", "failed"}
        /\ exitPath # "catch"
        /\ AttemptFailedOrBlank =>
              /\ whisperError # Undefined
              /\ ~usedWhisper
              /\ \E i \in 1..Len(steps) : steps[i].msg = whisperError
        /\ (Sent /\ ~response.ok) =>
              IsNotEnough /\ StrLen(Trim(combinedText)) < AcceptThreshold

\* transcribeUrl threw and the request still succeeded on the pasted text
C2_Witness ==
    /\ trOut.kind = "threw"
    /\ pc = "done"
    /\ response.ok
    /\ whisperError = trOut.msg

(***************************************************************************)
(* C3: after resolution the handler attempts transcription if and only if  *)
(* the trimmed native text is shorter than the trigger threshold; when it  *)
(* is skipped no temporary directory is made and no subprocess is started. *)
(***************************************************************************)
C3_TranscribeIffShort ==
    (calls.resolver = 1 /\ ~usedWhisper) =>
        /\ calls.transcribe = 1 <=>
              StrLen(Trim(Field(source, "text"))) < TriggerThreshold
        /\ calls.transcribe = 0 =>
              /\ procs = << >>
              /\ tmp = "none"
              /\ tpc = "idle"
              /\ transport = "none"

\* a native text that is long enough only with its whitespace is transcribed
C3_Witness ==
    /\ calls.transcribe = 1
    /\ ~usedWhisper
    /\ StrLen(Field(source, "text")) >= TriggerThreshold
    /\ StrLen(Trim(Field(source, "text"))) = TriggerThreshold - 1
    /\ Len(procs) > 0

\* a native text of exactly the trigger threshold skips transcription
C3_WitnessSkip ==
    /\ calls.resolver = 1
    /\ calls.transcribe = 0
    /\ StrLen(Trim(Field(source, "text"))) = TriggerThreshold

(***************************************************************************)
(* C4 (as stated): after transcribeUrl returns or throws, the temporary    *)
(* directory it created no longer exists.                                  *)
(***************************************************************************)
C4_NoLeak == tpc = "returned" => tmp # "exists"

(***************************************************************************)
(* C4 (amended): after transcribeUrl returns or throws, the removal of the *)
(* directory it created has been attempted, on every exit path; the        *)
(* directory is gone whenever that removal succeeded and is left behind    *)
(* only when the removal itself failed.                                    *)
(***************************************************************************)
C4_CleanupAttempted ==
    tpc = "returned" =>
        /\ tmp # "none" => rmTried # "none"
        /\ tmp = "exists" => rmTried = "failed"
        /\ rmTried = "ok" => tmp = "removed"

\* the audio download failed and the directory was removed all the same
C4_Witness ==
    /\ tpc = "returned"
    /\ trOut.kind = "threw"
    /\ trOut.msg = "yt-dlp failed"
    /\ tmp = "removed"

(***************************************************************************)
(* C5: every failure response carries the accumulated trace: at the step   *)
(* that produces a failure response, the returned list holds every event   *)
(* pushed so far (the catch block's own event included), in order.         *)
(***************************************************************************)
C5_FailureCarriesTrace ==
    [][ (response = NotSent /\ response' # NotSent /\ ~response'.ok) =>
            /\ Len(response'.steps) = Len(steps')
            /\ \A i \in 1..Len(steps') :
                  /\ response'.steps[i].step = steps'[i].step
                  /\ response'.steps[i].msg = steps'[i].msg
            /\ \A i \in 1..Len(steps) : steps'[i] = steps[i] ]_vars

\* an insufficient-text failure after a failed transcription: a long trace
C5_Witness ==
    /\ IsNotEnough
    /\ calls.transcribe = 1
    /\ Len(response.steps) >= 6
    /\ response.steps[1].step \in {"extract.start", "parse.body"}

(***************************************************************************)
(* C6: the insufficient-text outcome is an ordinary return: it has its own *)
(* step identifier and the source info gathered so far, no catch-block     *)
(* event is in its trace, and no response of the catch block can be taken  *)
(* for it.                                                                 *)
(***************************************************************************)
C6_NotEnoughIsOrdinary ==
    /\ (pc = "failed" /\ exitPath = "return") =>
          /\ IsNotEnough
          /\ "sourceUsed" \in DOMAIN response
          /\ response.sourceUsed = source
          /\ "usedWhisper" \in DOMAIN response
          /\ \A i \in 1..Len(response.steps) :
                response.steps[i].step \notin {"extract.error", "exception"}
    /\ exitPath = "catch" =>
          /\ ~IsNotEnough
          /\ "sourceUsed" \notin DOMAIN response
          /\ response.steps[Len(response.steps)].step \in {"extract.error", "exception"}

\* the gate refused a corpus and reported the source it had
C6_Witness ==
    /\ IsNotEnough
    /\ exitPath = "return"
    /\ "title" \in DOMAIN response.sourceUsed

(***************************************************************************)
(* C7 (as stated): an unexpected error moves the handler to the failed     *)
(* outcome with the error's message and the stage at which it occurred:    *)
(* the trace records the stage and the response is                         *)
(* {ok: false, error, step, steps}.                                        *)
(***************************************************************************)
C7_UnexpectedErrorShape ==
    exitPath = "catch" =>
        /\ pc = "failed"
        /\ ~response.ok
        /\ response.error = steps[Len(steps)].msg
        /\ "step" \in DOMAIN response
        /\ "at" \in DOMAIN steps[Len(steps)].data
        /\ steps[Len(steps)].data.at = response.step

(***************************************************************************)
(* C8 (as stated): when the debug flag of a well-formed request is false    *)
(* (given as false or left out), no trace entry of its response, whatever  *)
(* its kind, carries a data payload.                                       *)
(***************************************************************************)
C8_NoPayloadWithoutDebug ==
    (Sent /\ ~Malformed(body) /\ ~DebugAsked) =>
        \A i \in 1..Len(response.steps) : "data" \notin DOMAIN response.steps[i]

(***************************************************************************)
(* C9: malformed input is rejected before any resolution work: for a body  *)
(* that is not JSON, has an invalid url or a field of the wrong type, the  *)
(* resolver, the transcription fallback and the extractor are never        *)
(* invoked and the request fails.                                          *)
(***************************************************************************)
C9_RejectedBeforeWork ==
    (pc # "start" /\ Malformed(body)) =>
        /\ calls = [resolver |-> 0, transcribe |-> 0, extract |-> 0]
        /\ fetchLog = << >>
        /\ procs = << >>
        /\ tmp = "none"
        /\ pc = "failed"
        /\ ~response.ok

\* a body with an invalid url was answered with a failure
C9_Witness ==
    /\ body.json
    /\ ~body.urlValid
    /\ Sent
    /\ ~response.ok

(***************************************************************************)
(* C10: the resolver makes no network call when there is nothing to fetch: *)
(* for a URL of an unknown platform it returns {platform: unknown,         *)
(* text: ""}, for a YouTube URL without a video identifier {platform:      *)
(* youtube, text: ""}, and no fetch has been issued.                       *)
(***************************************************************************)
C10_NothingToFetch ==
    (calls.resolver = 1 /\ (UnknownPlatform(req.url) \/ NoVideoId(req.url))) =>
        /\ fetchLog = << >>
        /\ DOMAIN source = {"platform", "text"}
        /\ source.platform = IF UnknownPlatform(req.url) THEN "unknown" ELSE "youtube"
        /\ ~usedWhisper => source.text = EmptyStr

\* a YouTube URL without an identifier was resolved
C10_Witness ==
    /\ calls.resolver = 1
    /\ NoVideoId(req.url)
    /\ source.platform = "youtube"
    /\ fetchLog = << >>

\* a URL of an unknown platform was resolved
C10_WitnessUnknown ==
    /\ calls.resolver = 1
    /\ UnknownPlatform(req.url)
    /\ source.platform = "unknown"
    /\ fetchLog = << >>

(***************************************************************************)
(* C11: whichever sub-fetches fail (oEmbed, transcript library, watch-page *)
(* scrape, timed-text fetch), fetchSourceText returns normally: the result *)
(* has platform set and text a string; a failed oEmbed leaves title and    *)
(* author unset, failed caption fetches leave text empty, and the          *)
(* sub-fetches after a failed one are still issued.                        *)
(***************************************************************************)
C11_ResolverDegrades ==
    output.fn = "fetchSourceText" =>
        LET e == input.env
            src == output.source
            issued(f) == \E i \in 1..Len(output.fetches) : output.fetches[i] = f
        IN  /\ ~output.threw
            /\ {"platform", "text"} \subseteq DOMAIN src
            /\ src.platform \in {"youtube", "tiktok", "unknown"}
            /\ src.text \in Seq([tag : STRING, ws : BOOLEAN, n : Nat])
            /\ ("oembed" \in DOMAIN e /\ ~e.oembed.ok) =>
                  /\ DOMAIN src = {"platform", "text"}
                  /\ "lib" \in DOMAIN e => issued("transcript")
                  /\ "lib" \notin DOMAIN e => src.text = EmptyStr
            /\ ("lib" \in DOMAIN e /\ ~e.lib.ok) =>
                  /\ issued("watch")
                  /\ e.scrape.stage \in {"timedFail", "ok"} => issued("timedtext")
                  /\ e.scrape.stage # "ok" => src.text = EmptyStr

\* every sub-fetch of a YouTube URL failed and the resolver returned
C11_Witness ==
    /\ output.fn = "fetchSourceText"
    /\ "lib" \in DOMAIN input.env
    /\ ~input.env.oembed.ok
    /\ ~input.env.lib.ok
    /\ input.env.scrape.stage = "watchFail"
    /\ ~output.threw
    /\ output.source = [platform |-> "youtube", text |-> EmptyStr]
    /\ output.fetches = <<"oembed", "transcript", "watch">>

\* the timed-text fetch failed after the watch page was read
C11_WitnessTimedText ==
    /\ output.fn = "fetchSourceText"
    /\ "lib" \in DOMAIN input.env
    /\ ~input.env.lib.ok
    /\ input.env.scrape.stage = "timedFail"
    /\ output.source.text = EmptyStr
    /\ output.fetches = <<"oembed", "transcript", "watch", "timedtext">>

(***************************************************************************)
(* C12: for a text holding the marker, then a JSON object, then trailing   *)
(* braces, the scanner returns exactly that object: braces inside quoted   *)
(* strings and quotes escaped by a backslash do not change the depth.      *)
(***************************************************************************)
C12_ExactObject ==
    output.fn = "extractJsonObject" => output.value = input.object

\* marker{"a":"b{c}","d":1} followed by two closing braces
C12_Witness ==
    /\ output.fn = "extractJsonObject"
    /\ input.html =
          Marker \o <<"{", QUOTE, "a", QUOTE, ":", QUOTE, "b", "{", "c", "}", QUOTE, ",",
                      QUOTE, "d", QUOTE, ":", "1", "}", "}", "}">>
    /\ output.value =
          [obj |-> << <<<<"a">>, [str |-> <<"b", "{", "c", "}">>]>>,
                      <<<<"d">>, [num |-> <<"1">>]>> >>]

\* a string value ending in an escaped backslash, then a brace after the object
C12_WitnessEscape ==
    /\ output.fn = "extractJsonObject"
    /\ input.html =
          Marker \o <<"{", QUOTE, "a", QUOTE, ":", QUOTE, BACKSLASH, BACKSLASH, QUOTE, "}",
                      "}">>
    /\ output.value = [obj |-> << <<<<"a">>, [str |-> <<BACKSLASH>>]>> >>]

\* the four parts of the corpus in their fixed order, each with its label
\* and its content ("" when the field is undefined; the pasted text trimmed)
CorpusParts(src, pastedText) ==
    << [label |-> TitleLabel, content |-> Field(src, "title")],
       [label |-> AuthorLabel, content |-> Field(src, "author")],
       [label |-> SourceLabel, content |-> Field(src, "text")],
       [label |-> PastedLabel, content |-> Trim(pastedText)] >>

PresentParts(src, pastedText) ==
    SelectSeq(CorpusParts(src, pastedText), LAMBDA part : part.content # EmptyStr)

LabelTags == {"TITLE:", "AUTHOR:", "SOURCE TEXT:", "PASTED TEXT:"}

\* the labels occurring in a text, in order
LabelsOf(text) ==
    LET runs == SelectSeq(text, LAMBDA r : r.tag \in LabelTags)
    IN  [i \in 1..Len(runs) |-> runs[i].tag]

RECURSIVE SumLen(_)
SumLen(parts) ==
    IF parts = << >> THEN 0
    ELSE StrLen(Head(parts).label) + StrLen(Head(parts).content) + SumLen(Tail(parts))

(***************************************************************************)
(* C13: whichever of title, author, source text and pasted text are        *)
(* present, the corpus holds the present parts in the order TITLE, AUTHOR, *)
(* SOURCE TEXT, PASTED TEXT, each label followed by its content, with one  *)
(* blank line between consecutive parts and nothing for an empty part; it  *)
(* is the empty string when every part is empty.                           *)
(***************************************************************************)
C13_FixedOrder ==
    output.fn = "combine" =>
        LET present == PresentParts(input.src, input.pastedText)
        IN  /\ LabelsOf(output.text) = [i \in 1..Len(present) |-> present[i].label[1].tag]
            /\ \A i \in 1..Len(present) :
                  Includes(output.text, present[i].label \o present[i].content)
            /\ \A i \in 1..(Len(present) - 1) :
                  Includes(output.text,
                           present[i].content \o BlankLine \o present[i + 1].label)
            /\ StrLen(output.text) =
                  SumLen(present)
                      + (IF Len(present) > 1 THEN StrLen(BlankLine) * (Len(present) - 1)
                         ELSE 0)
            /\ present = << >> => output.text = EmptyStr

\* title and pasted text present, author undefined, source text empty
C13_Witness ==
    /\ output.fn = "combine"
    /\ "author" \notin DOMAIN input.src
    /\ input.src.text = EmptyStr
    /\ LabelsOf(output.text) = <<"TITLE:", "PASTED TEXT:">>

\* every part empty
C13_WitnessEmpty ==
    /\ output.fn = "combine"
    /\ PresentParts(input.src, input.pastedText) = << >>
    /\ input.pastedText # EmptyStr
    /\ output.text = EmptyStr

\* a step string without its ordinal: what follows the digits, the period
\* and the space
Unprefixed(st) == SubSeq(st, SkipDigits(st, 1) + 2, Len(st))

RawSteps(recipe) == [i \in 1..Len(recipe.steps) |-> Unprefixed(recipe.steps[i])]

\* no entry is empty and no two entries are equal once whitespace is
\* collapsed and trimmed
NoEmptyNoDuplicate(list) ==
    /\ \A i \in 1..Len(list) : clean(list[i]) # << >>
    /\ \A i, j \in 1..Len(list) : i # j => clean(list[i]) # clean(list[j])

\* the ordinal, the period and the space that start the i-th step
Ordinal(i) == NumberToString(i) \o <<".", " ">>

\* piece occurs in text
Within(text, piece) ==
    \E i \in 1..(Len(text) - Len(piece) + 1) : SubSeq(text, i, i + Len(piece) - 1) = piece

(***************************************************************************)
(* C14: for every corpus, the ingredients and the steps without their      *)
(* ordinals, as extractRecipe returns them, hold no empty entry and no two *)
(* entries that are equal after normalization (whitespace collapsed,       *)
(* trimmed).                                                               *)
(***************************************************************************)
C14_NoEmptyNoDuplicate ==
    output.fn = "extractRecipe" =>
        /\ NoEmptyNoDuplicate(output.recipe.ingredients)
        /\ NoEmptyNoDuplicate(RawSteps(output.recipe))

\* a section with the lines "2 eggs" and " 2  eggs": one entry is returned
C14_Witness ==
    /\ output.fn = "extractRecipe"
    /\ input.fullText = IngredientsBlock
    /\ output.recipe.ingredients = << <<"2", " ", "e", "g", "g", "s">>,
                                      <<"s", "a", "l", "t">> >>

\* the same sentence three times, with different whitespace: one step and
\* one ingredient
C14_WitnessSteps ==
    /\ output.fn = "extractRecipe"
    /\ input.fullText = FlourSentence \o FlourTwice
    /\ Len(output.recipe.steps) = 1
    /\ Unprefixed(output.recipe.steps[1]) = TrimChars(FlourSentence)
    /\ output.recipe.ingredients
          = << <<"2", " ", "c", "u", "p", "s", " ", "f", "l", "o", "u", "r">> >>

(***************************************************************************)
(* C15: for every corpus, the i-th step returned by extractRecipe          *)
(* (counting from 1) starts with the ordinal i, a period and a space:      *)
(* the ordinals start at 1 and go up by one without gap or repeat, and     *)
(* they are given after the duplicates are removed, so that a removed      *)
(* duplicate leaves no hole.                                               *)
(***************************************************************************)
C15_OrdinalsAfterDedup ==
    output.fn = "extractRecipe" =>
        LET listed == output.recipe.steps
        IN  /\ \A i \in 1..Len(listed) :
                  /\ Len(listed[i]) > Len(Ordinal(i))
                  /\ SubSeq(listed[i], 1, Len(Ordinal(i))) = Ordinal(i)
            /\ listed = [i \in 1..Len(listed) |-> Ordinal(i) \o RawSteps(output.recipe)[i]]
            /\ NoEmptyNoDuplicate(RawSteps(output.recipe))

\* a sentence, its duplicate, then another sentence: the steps are 1 and 2
C15_Witness ==
    /\ output.fn = "extractRecipe"
    /\ input.fullText = FlourTwice \o MixSentence
    /\ output.recipe.steps
          = << Ordinal(1) \o TrimChars(FlourSentence), Ordinal(2) \o TrimChars(MixSentence) >>

C16_WitnessOther ==
    /\ output.fn = "extractRecipe"
    /\ earlier # NoCall
    /\ earlier.input # input
    /\ earlier.output # output

(***************************************************************************)
(* C17 (as stated): for the corpus of the garlic butter shrimp video,      *)
(* extractRecipe returns the title "Garlic Butter Shrimp", ingredients     *)
(* with an entry for "2 tbsp butter", an entry for "1 lb shrimp" and no    *)
(* entry holding "cook for 3 minutes", and numbered steps holding the      *)
(* sentences of Add, cook and Season in the order of the text.             *)
(***************************************************************************)
C17_ShrimpExample ==
    (output.fn = "extractRecipe" /\ input.fullText = ShrimpCorpus
         /\ "sourceTitle" \notin DOMAIN input.opts) =>
        LET recipe == output.recipe
            entryFor(piece) ==
                \E i \in 1..Len(recipe.ingredients) : Within(recipe.ingredients[i], piece)
            stepOf(piece) ==
                { i \in 1..Len(recipe.steps) : Within(recipe.steps[i], piece) }
        IN  /\ recipe.title = <<"G", "a", "r", "l", "i", "c", " ", "B", "u", "t", "t", "e",
                                "r", " ", "S", "h", "r", "i", "m", "p">>
            /\ entryFor(<<"2", " ", "t", "b", "s", "p", " ", "b", "u", "t", "t", "e", "r">>)
            /\ entryFor(<<"1", " ", "l", "b", " ", "s", "h", "r", "i", "m", "p">>)
            /\ ~entryFor(<<"c", "o", "o", "k", " ", "f", "o", "r", " ", "3", " ", "m", "i",
                           "n", "u", "t", "e", "s">>)
            /\ \E a \in stepOf(<<"A", "d", "d", " ", "2", " ", "t", "b", "s", "p">>) :
               \E c \in stepOf(<<"c", "o", "o", "k", " ", "f", "o", "r">>) :
               \E z \in stepOf(<<"S", "e", "a", "s", "o", "n", " ", "w", "i", "t", "h">>) :
                  a < c /\ c < z

(***************************************************************************)
(* C18: transcribeUrl fails whenever the audio download exits non-zero,    *)
(* the engine exits non-zero or the engine's output is not parseable JSON; *)
(* the engine is started only after the download exited with code 0, and   *)
(* a result is returned only when both subprocesses exited with code 0 and *)
(* the output parsed.                                                      *)
(***************************************************************************)
C18_FailsOnSubprocessFailure ==
    /\ (\E i \in 1..Len(procs) : procs[i] = "python") =>
            (Ended("yt-dlp") /\ ExitOf("yt-dlp").code = "zero")
    /\ TranscribeSettled =>
        /\ (Ended("yt-dlp") /\ ExitOf("yt-dlp").code = "nonzero") => trOut.kind = "threw"
        /\ (Ended("python") /\ ExitOf("python").code = "nonzero") => trOut.kind = "threw"
        /\ (Ended("python") /\ ExitOf("python").stdout = NotJson) => trOut.kind = "threw"
        /\ trOut.kind = "ok" =>
              /\ Ended("yt-dlp") /\ ExitOf("yt-dlp").code = "zero"
              /\ EngineParsed

\* the engine exited with code 0 but printed no JSON, and transcribeUrl threw
C18_Witness ==
    /\ TranscribeSettled
    /\ Ended("python")
    /\ ExitOf("python").code = "zero"
    /\ ExitOf("python").stdout = NotJson
    /\ trOut.kind = "threw"

\* both subprocesses exited with code 0 and a result was returned
C18_WitnessResult ==
    /\ TranscribeSettled
    /\ EngineParsed
    /\ trOut.kind = "ok"

(***************************************************************************)
(* C19 (as stated): transcribeUrl never fails solely because optional      *)
(* fields are absent: whenever the engine exited with code 0 and printed   *)
(* parseable JSON (an object lacking text or language, or null) and the    *)
(* clean-up went through, a result is returned, with text defaulting to    *)
(* the empty string and language to unset or "unknown".                    *)
(***************************************************************************)
C19_OptionalFieldsDefault ==
    (TranscribeSettled /\ EngineParsed /\ rmTried = "ok") =>
        LET printed == ExitOf("python").stdout
        IN  /\ trOut.kind = "ok"
            /\ DOMAIN printed \cap {"text", "textNum"} = {} => trOut.text = EmptyStr
            /\ "language" \notin DOMAIN printed => trOut.language \in UnsetLanguage

(***************************************************************************)
(* C20 (as stated): once a subprocess invocation made with a trace has     *)
(* settled, its start event is matched by exactly one closing event: the   *)
(* trace holds as many start events as invocations made and as many        *)
(* closing events (done, fail or unparseable output) as invocations        *)
(* settled.  The engine's events are counted under their execjson names.   *)
(***************************************************************************)
C20_StartHasClosing ==
    HasPush =>
        /\ CountSteps({"exec.start", "execjson.start"}) = Len(procs)
        /\ CountSteps({"exec.done", "exec.fail", "execjson.done", "execjson.fail",
                       "execjson.badjson"}) = Len(exits)

(***************************************************************************)
(* C21 (as stated): an error raised while removing the temporary           *)
(* directory is swallowed: whatever the removal does, transcribeUrl        *)
(* settles as its try block completed, with the result when the            *)
(* transcription succeeded and with the download or engine error when it   *)
(* failed.                                                                 *)
(***************************************************************************)
C21_CleanupSwallowed ==
    [][ (tpc = "cleanup" /\ tpc' = "returned") => trOut' = pending ]_vars

\* the corpus of a request past the combine stage is made of title and
\* author only: the source has no text and nothing was pasted
MetadataOnly ==
    /\ PastCombine
    /\ ~Truthy(Field(source, "text"))
    /\ ~Truthy(Trim(req.pastedText))

(***************************************************************************)
(* C22 (as stated): the acceptance threshold of the handler is at least    *)
(* 200 characters, so that a request whose corpus holds only a title, or   *)
(* only title and author, of less than 200 characters, with no source text *)
(* and no pasted text, ends in the insufficient-text failure and never in  *)
(* a recipe.                                                               *)
(***************************************************************************)
C22_MetadataOnlyRefused ==
    /\ AcceptThreshold >= 200
    /\ (MetadataOnly /\ StrLen(combinedText) < 200) =>
          /\ IsNotEnough
          /\ calls.extract = 0
          /\ pc # "done"

\* the subprocesses of invocation r work in its directory, or the directory
\* waits for its removal
UsesTmp(r) == handlers[r].tpc \in {"download", "engine", "cleanup"}

(***************************************************************************)
(* C23: two requests served at once share no mutable state.  Under every   *)
(* interleaving, the trace of a request, and the trace it returns, hold    *)
(* only events appended by that request; a step of one request leaves the  *)
(* source, the trace and every other local of the other request as they    *)
(* were; and the directory a transcription works in exists until its own   *)
(* clean-up: it is never the directory of the other request, and the other *)
(* request's clean-up does not remove it.                                  *)
(***************************************************************************)
C23_NoSharedState ==
    /\ [](\A r \in Requests :
            /\ \A i \in 1..Len(handlers[r].steps) : handlers[r].steps[i].by = r
            /\ handlers[r].response # NotSent =>
                  \A i \in 1..Len(handlers[r].response.steps) :
                      handlers[r].response.steps[i].by = r
            /\ UsesTmp(r) => handlers[r].tmp \in tmpdirs
            /\ \A q \in Requests \ {r} :
                  (UsesTmp(r) /\ UsesTmp(q)) => handlers[r].tmp # handlers[q].tmp)
    /\ [][ \A r \in Requests : \A q \in Requests \ {r} :
              handlers'[q] # handlers[q] => handlers'[r] = handlers[r] ]_vars

\* one request removed its directory while the other was still downloading
\* into its own
C23_Witness ==
    /\ handlers["r1"].tpc = "returned"
    /\ handlers["r1"].tmp \in DirNames
    /\ handlers["r1"].tmp \notin tmpdirs
    /\ handlers["r2"].tpc = "download"
    /\ handlers["r2"].tmp \in tmpdirs

\* both requests answered, one with the transcription spliced into its
\* source, the other with the captions it resolved
C23_WitnessSource ==
    /\ handlers["r1"].response # NotSent
    /\ handlers["r2"].response # NotSent
    /\ handlers["r1"].response.ok
    /\ handlers["r1"].response.sourceUsed.text = "whisper"
    /\ handlers["r2"].response.ok
    /\ handlers["r2"].response.sourceUsed.text = "captions"

(***************************************************************************)
(* C24: the trace of a request is append-only and in insertion order: a    *)
(* step of the program leaves every event already in the trace in its      *)
(* place and unchanged and adds new events at the end only; the trace a    *)
(* response returns holds the events pushed up to then, in the order they  *)
(* were pushed, and a response once produced is not changed.               *)
(***************************************************************************)
C24_AppendOnly ==
    [][ /\ Len(steps') >= Len(steps)
        /\ \A i \in 1..Len(steps) : steps'[i] = steps[i]
        /\ (response = NotSent /\ response' # NotSent) =>
              /\ Len(response'.steps) = Len(steps')
              /\ \A i \in 1..Len(steps') :
                    /\ response'.steps[i].step = steps'[i].step
                    /\ response'.steps[i].msg = steps'[i].msg
        /\ response # NotSent => response' = response ]_vars

\* a success response whose trace holds the events of the download, pushed
\* by transcribeUrl between those of the handler
C24_Witness ==
    /\ Sent
    /\ response.ok
    /\ Len(response.steps) = Len(steps)
    /\ \E i \in 1..Len(steps) : \E j \in 1..Len(steps) : \E k \in 1..Len(steps) :
          /\ i < j /\ j < k
          /\ steps[i].step = "transcribe.start"
          /\ steps[j].step = "exec.done"
          /\ steps[k].step = "combine.start"

\* the 'close' of a subprocess that could not be started pushed its event
\* after the response was produced: the response is as it was
C24_WitnessLate ==
    /\ Sent
    /\ Len(steps) = Len(response.steps) + 1
    /\ steps[Len(steps)].step \in {"exec.fail", "execjson.fail"}

(***************************************************************************)
(* C25: extractRecipe always returns a recipe, and its notes tell what is  *)
(* missing: the note on ingredients is there exactly when the list of      *)
(* ingredients is empty, the note on steps exactly when the list of steps  *)
(* is empty, and the recipe has no notes field when neither list is empty. *)
(***************************************************************************)
NotesOf(recipe) == IF "notes" \in DOMAIN recipe THEN recipe.notes ELSE << >>

HasNote(recipe, note) == \E i \in 1..Len(NotesOf(recipe)) : NotesOf(recipe)[i] = note

Extracted == output # NoCall /\ output.fn = "extractRecipe"

C25_NotesTellMissing ==
    Extracted =>
        LET recipe == output.recipe
        IN  /\ {"title", "ingredients", "steps"} \subseteq DOMAIN recipe
            /\ HasNote(recipe, "No clear ingredient list found") <=> recipe.ingredients = << >>
            /\ HasNote(recipe, "No clear steps found") <=> recipe.steps = << >>
            /\ "notes" \in DOMAIN recipe <=>
                  (recipe.ingredients = << >> \/ recipe.steps = << >>)
            /\ Len(NotesOf(recipe)) <= 2
            /\ Len(NotesOf(recipe)) = 2 => NotesOf(recipe)[1] # NotesOf(recipe)[2]

\* a corpus with steps and ingredients: the recipe has no notes field
C25_Witness ==
    /\ Extracted
    /\ output.recipe.ingredients # << >>
    /\ output.recipe.steps # << >>
    /\ ~("notes" \in DOMAIN output.recipe)

\* a corpus with steps and no ingredient: one note, on the ingredients
C25_WitnessIngredients ==
    /\ Extracted
    /\ output.recipe.ingredients = << >>
    /\ output.recipe.steps # << >>
    /\ NotesOf(output.recipe) = <<"No clear ingredient list found">>

\* a corpus with no sentence in it: both notes
C25_WitnessBoth ==
    /\ Extracted
    /\ output.recipe.ingredients = << >>
    /\ output.recipe.steps = << >>
    /\ Len(NotesOf(output.recipe)) = 2

(***************************************************************************)
(* C26: for a YouTube URL with a video id the captions are asked for in    *)
(* order: the transcript library is called first; the watch page is        *)
(* fetched only after that call, and only when the call failed or gave     *)
(* blank text; when the library gave non-blank text the watch page is not  *)
(* fetched and the text is the library's.                                  *)
(***************************************************************************)
FetchAt(fetches, what) == { i \in 1..Len(fetches) : fetches[i] = what }

ResolvedYouTube ==
    /\ output # NoCall
    /\ output.fn = "fetchSourceText"
    /\ detectPlatform(input.url) = "youtube"
    /\ parseYouTubeId(input.url) # Null

FirstLayerBlank == ~input.env.lib.ok \/ ~Truthy(Trim(input.env.lib.text))

C26_CaptionWaterfall ==
    ResolvedYouTube =>
        /\ Cardinality(FetchAt(output.fetches, "transcript")) = 1
        /\ Cardinality(FetchAt(output.fetches, "watch")) <= 1
        /\ \A i \in FetchAt(output.fetches, "transcript") :
              \A j \in FetchAt(output.fetches, "watch") \cup FetchAt(output.fetches, "timedtext") :
                  i < j
        /\ FetchAt(output.fetches, "watch") # {} <=> FirstLayerBlank
        /\ ~FirstLayerBlank => output.source.text = input.env.lib.text

\* the library failed and the watch page was fetched after it
C26_Witness ==
    /\ ResolvedYouTube
    /\ ~input.env.lib.ok
    /\ FetchAt(output.fetches, "watch") # {}

\* the library gave text made of white space only: the watch page is fetched
C26_WitnessBlank ==
    /\ ResolvedYouTube
    /\ input.env.lib.ok
    /\ StrLen(input.env.lib.text) > 0
    /\ FirstLayerBlank
    /\ FetchAt(output.fetches, "watch") # {}

\* the library gave captions: the watch page is not fetched
C26_WitnessCaptions ==
    /\ ResolvedYouTube
    /\ ~FirstLayerBlank
    /\ FetchAt(output.fetches, "watch") = {}
    /\ Truthy(output.source.text)

(***************************************************************************)
(* C27: a request goes through its stages in one order.  In every trace    *)
(* the events of the resolution come before those of the transcription,    *)
(* which come before those of the combination, which come before those of  *)
(* the extraction; a trace that reached the combination holds exactly one  *)
(* of 'transcription skipped' and 'transcription started'; and once the    *)
(* response is produced no event is added to the trace.                    *)
(***************************************************************************)
ResolveEvents ==
    {"source.fetch.start", "source.fetch.done", "fetchSourceText", "fetchSourceText.done"}

TranscribeStarted == {"transcribe.start", "transcribe.fallback"}

TranscribeEvents ==
    TranscribeStarted \cup
    {"transcribe.skip", "transcribe.done", "transcribe.empty", "transcribe.exception",
     "transcribe.error", "transcribe.success", "transcribe.fetch.done",
     "transcribe.dl.start", "transcribe.whisper.start", "transcribe.whisper.done",
     "exec.start", "exec.done", "exec.fail",
     "execjson.start", "execjson.done", "execjson.fail", "execjson.badjson"}

CombineEvents == {"combine.start", "combine.done", "combine.text", "combine.text.done"}

ExtractEvents ==
    {"recipe.extract.start", "recipe.extract.done", "extractRecipe", "extractRecipe.done"}

\* the position of a stage in the order of the stages, 0 for an event of no stage
StageOf(ev) ==
    IF ev.step \in ResolveEvents THEN 1
    ELSE IF ev.step \in TranscribeEvents THEN 2
    ELSE IF ev.step \in CombineEvents THEN 3
    ELSE IF ev.step \in ExtractEvents THEN 4
    ELSE 0

StagesInOrder ==
    \A i \in 1..Len(steps) : \A j \in 1..Len(steps) :
        (i < j /\ StageOf(steps[i]) # 0 /\ StageOf(steps[j]) # 0)
            => StageOf(steps[i]) <= StageOf(steps[j])

ReachedCombine == \E i \in 1..Len(steps) : steps[i].step \in CombineEvents

OneTranscribeDecision ==
    ReachedCombine =>
        Cardinality({ i \in 1..Len(steps) :
                        steps[i].step \in TranscribeStarted \cup {"transcribe.skip"} }) = 1

C27_StagesInOrder ==
    /\ [](StagesInOrder /\ OneTranscribeDecision)
    /\ [][ response # NotSent => steps' = steps ]_vars

\* the failure event of a subprocess that could not be started is in the
\* trace after the events of the combination
C27_LateEvent ==
    \E i \in 1..Len(steps) : \E j \in 1..Len(steps) :
        /\ i < j
        /\ steps[i].step \in CombineEvents
        /\ steps[j].step \in {"exec.fail", "execjson.fail"}

(***************************************************************************)
(* C28: for every corpus extractRecipe returns at most 40 ingredients and  *)
(* at most 18 steps, and the cap on the steps comes before the removal of  *)
(* duplicates: every step is one of the first 18 candidate sentences of    *)
(* the corpus, and each of these 18 is among the steps.                    *)
(***************************************************************************)
\* the sentences extractSteps chooses from: those with a cooking verb, or
\* all of them when none has one
StepCandidates(text) ==
    LET sentences == splitSentences(text)
        keep == SelectSeq(sentences, LAMBDA x : HasWord(x, StepVerbs))
    IN  IF keep # << >> THEN keep ELSE sentences

Entries(list) == { list[i] : i \in 1..Len(list) }

C28_Caps ==
    Extracted =>
        /\ Len(output.recipe.ingredients) <= 40
        /\ Len(output.recipe.steps) <= 18
        /\ Entries(RawSteps(output.recipe))
              = Entries(Take(StepCandidates(input.fullText), 18))

\* twenty different step sentences: the first eighteen are the steps
C28_Witness ==
    /\ Extracted
    /\ Len(StepCandidates(input.fullText)) = 20
    /\ Len(output.recipe.steps) = 18
    /\ ~(<<"S", "t", "i", "r", " ", "1", "9", ".">> \in Entries(RawSteps(output.recipe)))

\* eighteen times one sentence and then another one: the other one, the
\* nineteenth candidate, is not a step, and one step is returned
C28_WitnessCapFirst ==
    /\ Extracted
    /\ input.fullText = SameThenOther(18)
    /\ Len(output.recipe.steps) = 1

\* forty-two different ingredient lines: forty ingredients
C28_WitnessIngredients ==
    /\ Extracted
    /\ input.fullText = IngredientLines(42)
    /\ Len(output.recipe.ingredients) = 40

(***************************************************************************)
(* C29: after the resolver has returned, the handler changes the source    *)
(* in one way only: it replaces the text by the non-blank text of a        *)
(* transcription, and usedWhisper is then true.  Title, author and         *)
(* platform are never changed; when the transcription is skipped, throws   *)
(* or gives blank text the source stays as the resolver returned it; the   *)
(* sourceUsed of a response is the source.                                 *)
(***************************************************************************)
SameButText(a, b) ==
    /\ DOMAIN a = DOMAIN b
    /\ \A f \in DOMAIN a \ {"text"} : a[f] = b[f]

TranscriptionSettles == pc = "transcribing" /\ pc' = "combining"

C29_OnlyTextSpliced ==
    [][ /\ (pc # "resolving" /\ source' # source) =>
              /\ TranscriptionSettles
              /\ usedWhisper'
              /\ SameButText(source, source')
              /\ source'.text = trOut.text
              /\ Truthy(Trim(source'.text))
        /\ (TranscriptionSettles /\ ~usedWhisper') => source' = source
        /\ (response = NotSent /\ response' # NotSent /\ "sourceUsed" \in DOMAIN response') =>
              /\ response'.sourceUsed = source
              /\ source' = source ]_vars

\* a response after a transcription that replaced the text: the title the
\* resolver found is still there, the text is the transcription's
C29_Witness ==
    /\ Sent
    /\ "sourceUsed" \in DOMAIN response
    /\ response.usedWhisper
    /\ "title" \in DOMAIN response.sourceUsed
    /\ response.sourceUsed.text = trOut.text
    /\ fetchLog # << >>

\* a response after a transcription that threw: the short text of the
\* resolver is reported
C29_WitnessThrew ==
    /\ Sent
    /\ "sourceUsed" \in DOMAIN response
    /\ ~response.usedWhisper
    /\ trOut.kind = "threw"
    /\ Truthy(response.sourceUsed.text)

\* a response after a transcription that returned blank text
C29_WitnessBlank ==
    /\ Sent
    /\ "sourceUsed" \in DOMAIN response
    /\ ~response.usedWhisper
    /\ trOut.kind = "ok"
    /\ calls.transcribe = 1
    /\ response.sourceUsed.text # trOut.text

\* a response after the transcription was skipped
C29_WitnessSkipped ==
    /\ Sent
    /\ "sourceUsed" \in DOMAIN response
    /\ calls.transcribe = 0
    /\ response.sourceUsed = source

(***************************************************************************)
(* C30: in every response usedWhisper and whisperError exclude each other: *)
(* usedWhisper is true exactly when a transcription was attempted and      *)
(* returned non-blank text, whisperError is set exactly when a             *)
(* transcription was attempted and threw or returned blank text, and       *)
(* neither is set when the transcription was skipped.                      *)
(***************************************************************************)
SaysUsedWhisper == "usedWhisper" \in DOMAIN response /\ response.usedWhisper

SaysWhisperError ==
    "whisperError" \in DOMAIN response /\ response.whisperError \notin {Null, Undefined}

Attempted == calls.transcribe > 0

\* the attempt came back with text that is not blank
AttemptGaveText ==
    /\ Attempted
    /\ ver = "V2" => transport = "ok"
    /\ trOut.kind = "ok"
    /\ Truthy(Trim(trOut.text))

C30_WhisperFlags ==
    Sent =>
        /\ ~(SaysUsedWhisper /\ SaysWhisperError)
        /\ SaysUsedWhisper <=> AttemptGaveText
        /\ SaysWhisperError <=> (Attempted /\ ~AttemptGaveText)

\* the revision calling /api/transcribe, debug not asked: the attempt threw
\* and the response carries neither usedWhisper = true nor whisperError
C30_SilentFailure ==
    /\ Sent
    /\ ver = "V2"
    /\ ~req.debug
    /\ Attempted
    /\ ~AttemptGaveText
    /\ whisperError # Undefined
    /\ ~SaysUsedWhisper
    /\ ~SaysWhisperError

(***************************************************************************)
(* C31: a request that skipped transcription passes the gate.  When the    *)
(* trace records that transcription was skipped, the trimmed native text   *)
(* meets the trigger threshold, the trimmed corpus meets the acceptance    *)
(* threshold and the request does not end in the insufficient-text         *)
(* failure; every insufficient-text failure comes after a transcription    *)
(* attempt.                                                                *)
(***************************************************************************)
SkipRecorded == \E i \in 1..Len(steps) : steps[i].step = "transcribe.skip"

StartRecorded == \E i \in 1..Len(steps) : steps[i].step \in TranscribeStarted

C31_SkipPassesGate ==
    /\ SkipRecorded =>
          /\ calls.transcribe = 0
          /\ StrLen(Trim(Field(source, "text"))) >= TriggerThreshold
          /\ ~IsNotEnough
          /\ PastCombine => StrLen(Trim(combinedText)) >= AcceptThreshold
    /\ IsNotEnough =>
          /\ calls.transcribe = 1
          /\ StartRecorded
          /\ ~SkipRecorded

\* a native text of exactly the trigger threshold, no title and nothing
\* pasted: transcription is skipped and the corpus goes to extraction
C31_Witness ==
    /\ SkipRecorded
    /\ pc = "done"
    /\ response.ok
    /\ StrLen(Trim(Field(source, "text"))) = TriggerThreshold
    /\ ~Truthy(Field(source, "title"))
    /\ ~Truthy(Trim(req.pastedText))
    /\ StrLen(Trim(combinedText)) = AcceptThreshold + LabelLen

\* an insufficient-text failure: the attempt was made and gave nothing
C31_WitnessFailure ==
    /\ IsNotEnough
    /\ StartRecorded
    /\ AttemptFailedOrBlank
    /\ Truthy(Field(source, "text"))

====
